---- MODULE Spec2Model ----
(***************************************************************************)
(* Model of the two drivers of the repository:                             *)
(*   - BaseAgent.run          (src/src/core/base_agent.py)                 *)
(*   - WorkflowRunner         (src/src/core/workflow_runner.py)            *)
(* and of the tool executors of two BaseAgent subclasses                    *)
(*   - SpecificationIngestionAgent (src/src/agents/spec_ingestion_agent.py)*)
(*   - BusinessRequirementAgent (src/src/agents/business_requirement_agent.py) *)
(* The two drivers never call each other; each has its own specification   *)
(* (AgentSpec, RunnerSpec) over its own variables.                         *)
(***************************************************************************)
EXTENDS Integers, Sequences, FiniteSets, TLC

(***************************************************************************)
(* Bounds of the model.                                                    *)
(***************************************************************************)
\* largest max_iterations an agent is constructed with
MaxIterations == 2
\* largest number of tool_use blocks in one LLM reply
MaxToolUses == 2
\* total number of tool executor invocations on one agent instance
MaxExecutorCalls == 2
\* number of run() calls on one agent instance
MaxRuns == 2
\* number of run_workflows() calls on one runner
MaxRunnerCalls == 2
\* total number of workflows one runner is given
MaxWorkflows == 2
\* largest number of steps of a workflow
MaxSteps == 2
\* total number of HTTP requests one runner issues (RunnerSpec)
MaxRequests == 2
\* number of steps of the workflow of StepSpec
MaxChain == 2
\* most parts a substituted text is made of (SubstSpec)
MaxParts == 3

VARIABLES
    \* ---- BaseAgent ----
    max_iterations,   \* self.max_iterations (constructor argument)
    messages,         \* self.messages, the transcript
    iteration,        \* local `iteration` of run()
    is_complete,      \* local `is_complete` of run()
    final_data,       \* local `final_data` of run()
    response,         \* local `response`: the LLM reply of this loop pass
    tool_results,     \* local `tool_results` of the batch being executed
    tool_idx,         \* position of the for loop over tool_uses
    apc,              \* control point of run()
    ret,              \* the record run() returned
    runs,             \* number of run() calls started on this instance
    events,           \* history of the run(), LLM and executor calls on this instance
    outputs,          \* the class of the agent and what its output tools stored: self.specification, self.requirements, self.workflows
    \* ---- WorkflowRunner ----
    variables,        \* self.variables, the Variable Store
    results,          \* self.results
    passed,           \* local `passed` of run_workflows()
    failed,           \* local `failed` of run_workflows()
    workflows,        \* argument of run_workflows(): the workflows' step counts
    wf_idx,           \* position of the for loop over workflows
    steps,            \* the steps of the current workflow read so far
    step_results,     \* local `step_results` of run_workflow()
    workflow_success, \* local `workflow_success` of run_workflow()
    rpc,              \* control point of the runner
    summary,          \* the record run_workflows() returned
    calls,            \* number of run_workflows() calls on this instance
    http_log,         \* history: the HTTP requests issued, with workflow and step number
    capture_log,      \* history: the captures made, with workflow number
    last,             \* history: the last executed step, the store before it, the outcome
    wf_no,            \* history: number of run_workflow() calls so far
    wf_log,           \* history: for each workflow of this run_workflows() call, the steps read and the answers
    subst,            \* the last _substitute_variables() call: its text (in parts) and what it returned
    \* ---- two WorkflowRunner instances side by side ----
    dicts,            \* the dict objects: the class attribute's, and the one each instance created last
    pair              \* for each instance: the object self.variables refers to, where its run_workflow() is, and (history) the built-ins overwritten by the captures of its current workflow

agentVars == <<max_iterations, messages, iteration, is_complete, final_data,
               response, tool_results, tool_idx, apc, ret, runs, events,
               outputs>>

runnerVars == <<variables, results, passed, failed, workflows, wf_idx, steps,
                step_results, workflow_success, rpc, summary, calls,
                http_log, capture_log, last, wf_no, wf_log, subst>>

pairVars == <<dicts, pair>>

vars == <<agentVars, runnerVars, pairVars>>

(***************************************************************************)
(* BaseAgent                                                               *)
(***************************************************************************)

\* Python None where a raw tool result is expected (final_data = None).
NoneResult == [kind |-> "None", complete |-> "absent", obj |-> 0]

\* What one tool executor invocation can produce.  `obj` is the identity of
\* the produced object (the number of the invocation).  kind "dict" is a
\* mapping whose "complete" entry is absent, True or False (the flag is a
\* boolean in every executor of the repository); kind "other" is any
\* non-mapping value; kind "raise" is a raised exception.
ToolOutcomes(n) ==
    { [kind |-> "dict", complete |-> c, obj |-> n]
        : c \in {"absent", "True", "False"} }
    \cup { [kind |-> "other", complete |-> "absent", obj |-> n],
           [kind |-> "raise", complete |-> "absent", obj |-> n] }

\* truth value of result.get("complete")
Truthy(c) == c = "True"

\* a bug: the presence of the key is taken for the signal
SignalsCompletion_KeyPresent(result) ==
    result.kind = "dict" /\ result.complete # "absent"

\* isinstance(result, dict) and result.get("complete")   (line 106)
SignalsCompletion(result) == result.kind = "dict" /\ Truthy(result.complete)

\* A tool_use block.  Ids are made unique by the LLM.
ToolUse(n, k) == <<"tool_use", <<n, k>>>>
TextBlock == <<"text", <<"t">>>>

\* response.content of a reply with k tool_use blocks: a final answer (k = 0)
\* is empty or one text block; a reply that asks for tools is a text block
\* followed by the tool_use blocks.
Contents(n, k) ==
    IF k = 0 THEN {<<>>, <<TextBlock>>}
    ELSE {<<TextBlock>> \o [j \in 1..k |-> ToolUse(n, j)]}

\* The same replies and, in addition, replies with a second text block: a
\* final answer of two text blocks, and a request for tools whose tool_use
\* blocks are followed by more text.
RichContents(n, k) ==
    Contents(n, k) \cup
    { IF k = 0 THEN <<TextBlock, <<"text", <<"u">>>>>>
      ELSE <<TextBlock>> \o [j \in 1..k |-> ToolUse(n, j)]
                        \o << <<"text", <<"u">>>> >> }

StopReasons == {"end_turn", "tool_use"}

\* tool_uses = [block for block in response.content if block.type == "tool_use"]
IsToolUse(block) == block[1] = "tool_use"
ToolUses(content) == SelectSeq(content, IsToolUse)

NoResponse == [content |-> <<>>, stop_reason |-> "none"]
NoReturn ==
    [success |-> FALSE, iterations |-> -1, final_message |-> <<>>,
     data |-> NoneResult]

\* initial_prompt of the n-th run() call: callers pass a different task each time
InitialPrompt(n) == <<"task", n>>

UserPrompt(p) == [role |-> "user", content |-> <<"prompt", p>>]
AssistantMsg(content) == [role |-> "assistant", content |-> <<"blocks", content>>]
UserResults(batch) == [role |-> "user", content |-> <<"results", batch>>]

\* " ".join(text_blocks)   (line 164)
RECURSIVE JoinTexts(_)
JoinTexts(text_blocks) ==
    IF text_blocks = <<>> THEN <<>>
    ELSE IF Len(text_blocks) = 1 THEN text_blocks[1]
    ELSE text_blocks[1] \o <<" ">> \o JoinTexts(Tail(text_blocks))

\* a bug: only the first text block is returned
ExtractText_FirstBlock(content) ==
    IF content[1] = "prompt" THEN content[2]
    ELSE IF content[1] = "blocks"
    THEN LET with_text == SelectSeq(content[2], LAMBDA b : b[1] = "text")
         IN IF with_text = <<>> THEN <<>> ELSE with_text[1][2]
    ELSE <<>>

\* _extract_text (lines 158-165): a str is returned as it is; of a list, the
\* .text of every block that has the attribute, joined with one space.  A
\* tool_use block has no .text, and the tool_result entries of a user turn are
\* dicts, which have no attributes of that name: their text is empty.
ExtractText(content) ==
    IF content[1] = "prompt" THEN content[2]
    ELSE IF content[1] = "blocks"
    THEN LET with_text == SelectSeq(content[2], LAMBDA b : b[1] = "text")
         IN JoinTexts([i \in 1..Len(with_text) |-> with_text[i][2]])
    ELSE <<>>

\* number of executor invocations so far on this instance
ExecTotal == Cardinality({i \in 1..Len(events) : events[i][1] = "exec"})

AgentInit ==
    /\ max_iterations \in 0..MaxIterations
    /\ messages = <<>>
    /\ iteration = 0
    /\ is_complete = FALSE
    /\ final_data = NoneResult
    /\ response = NoResponse
    /\ tool_results = <<>>
    /\ tool_idx = 0
    /\ apc = "idle"
    /\ ret = NoReturn
    /\ runs = 0
    /\ events = <<>>

\* ---- run(): lines 50-58 ----
Run ==
    /\ apc \in {"idle", "returned", "raised"}
    /\ runs < MaxRuns
    /\ messages' = Append(messages, UserPrompt(InitialPrompt(runs + 1)))
    /\ events' = Append(events, <<"run", InitialPrompt(runs + 1)>>)
    /\ iteration' = 0
    /\ is_complete' = FALSE
    /\ final_data' = NoneResult
    /\ response' = NoResponse
    /\ tool_results' = <<>>
    /\ tool_idx' = 0
    /\ ret' = NoReturn
    /\ runs' = runs + 1
    /\ apc' = "while"
    /\ UNCHANGED max_iterations
    /\ UNCHANGED <<runnerVars, pairVars, outputs>>

\* a bug: one pass too many
LoopCondition_OffByOne == iteration <= max_iterations /\ ~is_complete

\* the while condition of line 60
LoopCondition == iteration < max_iterations /\ ~is_complete

\* a bug: no break after a reply without tool use, the loop test follows
ModelReplies_NoBreak(content, stop) ==
    LET reply == [content |-> content, stop_reason |-> stop]
    IN
    /\ iteration' = iteration + 1
    /\ response' = reply
    /\ events' = Append(events, <<"llm", reply>>)
    /\ messages' = Append(messages, AssistantMsg(content))
    /\ tool_results' = <<>>
    /\ IF ToolUses(content) # <<>>
       THEN /\ tool_idx' = 1
            /\ apc' = "tools"
       ELSE /\ tool_idx' = 0
            /\ apc' = "while"
    /\ UNCHANGED <<max_iterations, is_complete, final_data, ret, runs>>
    /\ UNCHANGED <<runnerVars, pairVars, outputs>>

\* ---- one loop pass up to the tool batch: lines 60-88 and 135-141 ----
\* The LLM replies with `content` and `stop`.
ModelReplies(content, stop) ==
    LET reply == [content |-> content, stop_reason |-> stop]
    IN
    /\ iteration' = iteration + 1
    /\ response' = reply
    /\ events' = Append(events, <<"llm", reply>>)
    /\ messages' = Append(messages, AssistantMsg(content))
    /\ tool_results' = <<>>
    /\ IF ToolUses(content) # <<>>
       THEN /\ tool_idx' = 1
            /\ apc' = "tools"
       ELSE \* no tool use, agent is done: break
            /\ tool_idx' = 0
            /\ apc' = "after_loop"
    /\ UNCHANGED <<max_iterations, is_complete, final_data, ret, runs>>
    /\ UNCHANGED <<runnerVars, pairVars, outputs>>

\* self.llm.create_message returns a reply: one of Contents, or of
\* RichContents when `rich`.
LLMReplyFrom(rich) ==
    /\ apc = "while"
    /\ LoopCondition
    /\ \E k \in 0..MaxToolUses, stop \in StopReasons :
         /\ ExecTotal + k <= MaxExecutorCalls
         /\ \E content \in IF rich THEN RichContents(Len(events), k)
                             ELSE Contents(Len(events), k) :
              ModelReplies(content, stop)

LLMReply == LLMReplyFrom(FALSE)

\* self.llm.create_message raises: nothing in run() catches it (lines 65-69).
LLMRaises ==
    /\ apc = "while"
    /\ LoopCondition
    /\ iteration' = iteration + 1
    /\ events' = Append(events, <<"llm_raise">>)
    /\ apc' = "raised"
    /\ UNCHANGED <<max_iterations, messages, is_complete, final_data, response,
                   tool_results, tool_idx, ret, runs>>
    /\ UNCHANGED <<runnerVars, pairVars, outputs>>

\* a bug: no try/except around the executor, its exception leaves run()
ExecuteTool_Unprotected(tool_use, outcome) ==
    /\ events' = Append(events, <<"exec", tool_use[2], outcome>>)
    /\ IF outcome.kind = "raise"
       THEN /\ apc' = "raised"
            /\ UNCHANGED <<tool_results, is_complete, final_data>>
       ELSE /\ tool_results' = Append(tool_results,
                   [type |-> "tool_result", tool_use_id |-> tool_use[2],
                    content |-> <<"str", outcome.obj>>, is_error |-> FALSE])
            /\ is_complete' = (is_complete \/ SignalsCompletion(outcome))
            /\ final_data' = IF SignalsCompletion(outcome) THEN outcome ELSE final_data
            /\ UNCHANGED apc
    /\ tool_idx' = tool_idx + 1
    /\ UNCHANGED <<max_iterations, messages, iteration, response, ret, runs>>
    /\ UNCHANGED <<runnerVars, pairVars>>

\* ---- one pass of the for loop over tool_uses: lines 89-123 ----
\* The executor, invoked for `tool_use`, produces `outcome`.
ExecuteTool(tool_use, outcome) ==
    /\ events' = Append(events, <<"exec", tool_use[2], outcome>>)
    /\ IF outcome.kind = "raise"
       THEN \* except Exception as e (lines 116-123)
            /\ tool_results' = Append(tool_results,
                   [type |-> "tool_result", tool_use_id |-> tool_use[2],
                    content |-> <<"Error: ", outcome.obj>>, is_error |-> TRUE])
            /\ UNCHANGED <<is_complete, final_data>>
       ELSE \* lines 94-108
            /\ tool_results' = Append(tool_results,
                   [type |-> "tool_result", tool_use_id |-> tool_use[2],
                    content |-> <<"str", outcome.obj>>, is_error |-> FALSE])
            /\ IF SignalsCompletion(outcome)
               THEN /\ is_complete' = TRUE
                    /\ final_data' = outcome
               ELSE UNCHANGED <<is_complete, final_data>>
    /\ tool_idx' = tool_idx + 1
    /\ UNCHANGED <<max_iterations, messages, iteration, response, apc, ret, runs>>
    /\ UNCHANGED <<runnerVars, pairVars>>

\* the executor of a plain BaseAgent is a callable that keeps no state here
ToolCall ==
    /\ apc = "tools"
    /\ tool_idx <= Len(ToolUses(response.content))
    /\ \E outcome \in ToolOutcomes(ExecTotal + 1) :
         ExecuteTool(ToolUses(response.content)[tool_idx], outcome)
    /\ UNCHANGED outputs

\* a bug: the batch is abandoned as soon as a completion signal is seen
EndBatch_BreakOnComplete ==
    /\ apc = "tools"
    /\ tool_idx > Len(ToolUses(response.content)) \/ is_complete
    /\ messages' = Append(messages, UserResults(tool_results))
    /\ apc' = IF is_complete THEN "after_loop"
              ELSE IF response.stop_reason = "end_turn" THEN "after_loop"
              ELSE "while"
    /\ UNCHANGED <<max_iterations, iteration, is_complete, final_data, response,
                   tool_results, tool_idx, ret, runs, events>>
    /\ UNCHANGED <<runnerVars, pairVars, outputs>>

\* a bug: the stop reason is not looked at after a batch
EndBatch_IgnoresStopReason ==
    /\ apc = "tools"
    /\ tool_idx > Len(ToolUses(response.content))
    /\ messages' = Append(messages, UserResults(tool_results))
    /\ apc' = IF is_complete THEN "after_loop" ELSE "while"
    /\ UNCHANGED <<max_iterations, iteration, is_complete, final_data, response,
                   tool_results, tool_idx, ret, runs, events>>
    /\ UNCHANGED <<runnerVars, pairVars, outputs>>

\* ---- after the for loop: lines 125-133 and 143-145 ----
EndBatch ==
    /\ apc = "tools"
    /\ tool_idx > Len(ToolUses(response.content))
    /\ messages' = Append(messages, UserResults(tool_results))
    /\ apc' = IF is_complete THEN "after_loop"
              ELSE IF response.stop_reason = "end_turn" THEN "after_loop"
              ELSE "while"
    /\ UNCHANGED <<max_iterations, iteration, is_complete, final_data, response,
                   tool_results, tool_idx, ret, runs, events>>
    /\ UNCHANGED <<runnerVars, pairVars, outputs>>

\* a bug: a run that used its whole budget counts as a success
ReturnRecord_BudgetInclusive ==
    [success |-> is_complete \/ iteration <= max_iterations,
     iterations |-> iteration,
     final_message |-> ExtractText(messages[Len(messages)].content),
     data |-> final_data]

\* the return record of lines 151-156
ReturnRecord ==
    [success |-> is_complete \/ iteration < max_iterations,
     iterations |-> iteration,
     final_message |-> ExtractText(messages[Len(messages)].content),
     data |-> final_data]

\* ---- leaving the loop and returning: lines 60 and 147-156 ----
Return ==
    /\ \/ apc = "after_loop"
       \/ apc = "while" /\ ~LoopCondition
    /\ ret' = ReturnRecord
    /\ apc' = "returned"
    /\ UNCHANGED <<max_iterations, messages, iteration, is_complete, final_data,
                   response, tool_results, tool_idx, runs, events>>
    /\ UNCHANGED <<runnerVars, pairVars, outputs>>

(***************************************************************************)
(* SpecificationIngestionAgent and BusinessRequirementAgent: BaseAgent     *)
(* subclasses whose executor is their own _execute_tool, which keeps what  *)
(* an output tool was given in an attribute of the instance.  A payload is *)
(* named by the number of the executor invocation that received it, 0 is   *)
(* None.                                                                   *)
(***************************************************************************)
\* a plain BaseAgent has none of the attributes
NoOutputs ==
    [cls |-> "BaseAgent", specification |-> 0, requirements |-> 0, workflows |-> 0]

\* self.tools when the LLM is called: the tools of the ingestion agent; of
\* the requirement agent REQUIREMENTS_TOOLS in its first run() and
\* WORKFLOW_TOOLS in the run() of _generate_workflows
OfferedTools ==
    IF outputs.cls = "SpecificationIngestionAgent"
    THEN {"fetch_spec", "read_local_spec", "output_specification"}
    ELSE IF runs = 1 THEN {"analyze_constraint", "output_requirements"}
    ELSE {"output_workflows"}

\* a bug: the payload is stored before it is validated
ExecuteOutputTool_StoresFirst(tool_name, tool_input, n) ==
    LET field == CASE tool_name = "output_specification" -> "specification"
                   [] tool_name = "output_requirements" -> "requirements"
                   [] tool_name = "output_workflows" -> "workflows"
                   [] OTHER -> "none"
    IN
    IF tool_name \in {"fetch_spec", "read_local_spec", "analyze_constraint"}
    THEN [outcome |-> [kind |-> "dict", complete |-> "absent", obj |-> n],
          outputs |-> outputs]
    ELSE IF field = "none"
    THEN [outcome |-> [kind |-> "raise", complete |-> "absent", obj |-> n],
          outputs |-> outputs]
    ELSE [outcome |-> [kind |-> "dict",
                       complete |-> IF tool_input = "valid" THEN "True" ELSE "False",
                       obj |-> n],
          outputs |-> [outputs EXCEPT ![field] = n]]

\* _execute_tool of the two classes (spec_ingestion_agent.py lines 181-216,
\* business_requirement_agent.py lines 537-632) for invocation n: the raw
\* result and the attributes afterwards.  tool_input is "empty" (the
\* parameter is missing or falsy), "incomplete" (a required field or
\* section is missing, or workflows is no non-empty list) or "valid".  The
\* other tools return a mapping without `complete`; a name that is no tool
\* of the class raises ValueError.
ExecuteOutputTool(tool_name, tool_input, n) ==
    LET field == CASE tool_name = "output_specification" -> "specification"
                   [] tool_name = "output_requirements" -> "requirements"
                   [] tool_name = "output_workflows" -> "workflows"
                   [] OTHER -> "none"
    IN
    IF tool_name \in {"fetch_spec", "read_local_spec", "analyze_constraint"}
    THEN [outcome |-> [kind |-> "dict", complete |-> "absent", obj |-> n],
          outputs |-> outputs]
    ELSE IF field = "none"
    THEN [outcome |-> [kind |-> "raise", complete |-> "absent", obj |-> n],
          outputs |-> outputs]
    ELSE IF tool_input = "valid"
    THEN [outcome |-> [kind |-> "dict", complete |-> "True", obj |-> n],
          outputs |-> [outputs EXCEPT ![field] = n]]
    ELSE [outcome |-> [kind |-> "dict", complete |-> "False", obj |-> n],
          outputs |-> outputs]

\* one pass of the for loop over tool_uses with _execute_tool as executor:
\* the LLM asked for one of the tools it was offered, or for a name that is
\* no tool, with some input
OutputToolCall ==
    /\ apc = "tools"
    /\ tool_idx <= Len(ToolUses(response.content))
    /\ \E tool_name \in OfferedTools \cup {"unknown_tool"},
          tool_input \in {"empty", "incomplete", "valid"} :
         LET done == ExecuteOutputTool(tool_name, tool_input, ExecTotal + 1)
         IN  /\ ExecuteTool(ToolUses(response.content)[tool_idx], done.outcome)
             /\ outputs' = done.outputs

\* ingest_spec: result = self.run(initial_prompt)   (line 451)
IngestSpec ==
    /\ outputs.cls = "SpecificationIngestionAgent"
    /\ runs = 0
    /\ Run

\* analyze_constraints: result = self.run(initial_prompt)   (line 722)
AnalyzeConstraints ==
    /\ outputs.cls = "BusinessRequirementAgent"
    /\ runs = 0
    /\ Run

\* analyze_constraints goes on when self.requirements is set (line 724):
\* _generate_workflows runs the agent again (lines 851-914)
GenerateWorkflows ==
    /\ outputs.cls = "BusinessRequirementAgent"
    /\ runs = 1
    /\ apc = "returned"
    /\ outputs.requirements # 0
    /\ Run

\* ingest_spec or analyze_constraints has come to its return statement
Reported ==
    /\ apc = "returned"
    /\ outputs.cls = "BusinessRequirementAgent"
       => (runs = 2 \/ outputs.requirements = 0)

\* what they return (spec_ingestion_agent.py lines 453-470,
\* business_requirement_agent.py lines 724-759 and 920)
Report ==
    IF outputs.cls = "SpecificationIngestionAgent"
    THEN [success |-> outputs.specification # 0, output |-> outputs.specification,
          workflows |-> 0]
    ELSE [success |-> outputs.requirements # 0, output |-> outputs.requirements,
          workflows |-> outputs.workflows]

OutputNext ==
    \/ IngestSpec
    \/ AnalyzeConstraints
    \/ GenerateWorkflows
    \/ LLMReply
    \/ LLMRaises
    \/ OutputToolCall
    \/ EndBatch
    \/ Return

AgentNext ==
    \/ Run
    \/ LLMReply
    \/ LLMRaises
    \/ ToolCall
    \/ EndBatch
    \/ Return



(***************************************************************************)
(* History of the current run(), read from `events`.                       *)
(***************************************************************************)
RECURSIVE LastRunIdx(_)
LastRunIdx(i) ==
    IF i = 0 THEN 0
    ELSE IF events[i][1] = "run" THEN i ELSE LastRunIdx(i - 1)

\* the positions in `events` of the current run's calls
RunIdx == (LastRunIdx(Len(events)) + 1)..Len(events)
LLMIdx == {i \in RunIdx : events[i][1] \in {"llm", "llm_raise"}}
ReplyIdx == {i \in RunIdx : events[i][1] = "llm"}
ExecIdx == {i \in RunIdx : events[i][1] = "exec"}
CompletingIdx == {i \in ExecIdx : events[i][3].kind = "dict"
                                    /\ events[i][3].complete = "True"}
Max(S) == CHOOSE x \in S : \A y \in S : y <= x
Min(S) == CHOOSE x \in S : \A y \in S : x <= y
HasToolUses(i) == ToolUses(events[i][2].content) # <<>>
Ended == apc \in {"returned", "raised"}

(***************************************************************************)
(* Claims on BaseAgent.run                                                 *)
(***************************************************************************)

\* C2: every assistant turn that contains ToolCalls is directly followed by
\* one user turn that holds exactly one ToolResult per ToolCall, with the
\* ToolCalls' ids in the ToolCalls' order; the only assistant turn with
\* ToolCalls that has no successor yet is the one whose batch is executing.
C2_ToolCallsAnswered ==
    \A i \in 1..Len(messages) :
      (messages[i].role = "assistant" /\ ToolUses(messages[i].content[2]) # <<>>)
      => IF i < Len(messages)
         THEN LET tus == ToolUses(messages[i].content[2])
                  m == messages[i + 1]
              IN  /\ m.role = "user"
                  /\ m.content[1] = "results"
                  /\ Len(m.content[2]) = Len(tus)
                  /\ \A k \in 1..Len(tus) :
                       /\ m.content[2][k].type = "tool_result"
                       /\ m.content[2][k].tool_use_id = tus[k][2]
         ELSE apc = "tools"

\* a batch of two ToolCalls whose first result carried the completion signal
\* and whose second call raised has been answered in full
C2_Witness ==
    /\ apc = "returned"
    /\ Len(tool_results) = 2
    /\ final_data.obj = tool_results[1].content[2]
    /\ tool_results[1].content[1] = "str"
    /\ tool_results[2].is_error
    /\ messages[Len(messages)] = UserResults(tool_results)
    /\ is_complete

\* C3: a run in which the LLM always answers, every reply asks for tools
\* with a stop reason other than end_turn, and no tool result carries
\* complete=true, returns (does not raise) after exactly max_iterations
\* passes and LLM calls, with success=false and data=None.
C3_Premise ==
    /\ LLMIdx = ReplyIdx
    /\ \A i \in ReplyIdx : HasToolUses(i) /\ events[i][2].stop_reason # "end_turn"
    /\ CompletingIdx = {}

C3_BudgetExhaustion ==
    (Ended /\ C3_Premise)
    => /\ apc = "returned"
       /\ ret.iterations = max_iterations
       /\ Cardinality(LLMIdx) = max_iterations
       /\ ret.success = FALSE
       /\ ret.data = NoneResult

C3_Witness ==
    /\ apc = "returned"
    /\ C3_Premise
    /\ max_iterations = 2
    /\ Cardinality(ExecIdx) >= 2

\* C4: for every max_iterations >= 1, when the first reply has no tool_use
\* block, run() returns after exactly one pass (one LLM call, no executor
\* call) with success=true.
C4_FirstReplyFinal ==
    (/\ apc = "returned"
     /\ max_iterations >= 1
     /\ ReplyIdx # {}
     /\ Min(LLMIdx) \in ReplyIdx
     /\ ~HasToolUses(Min(LLMIdx)))
    => /\ ret.iterations = 1
       /\ Cardinality(LLMIdx) = 1
       /\ ExecIdx = {}
       /\ ret.success = TRUE

\* C5: a run that ends on an assistant turn without tool calls reports
\* success=true at whichever pass it happens, the pass number
\* max_iterations included; success=false is reported only when the budget
\* is exhausted without such a final turn and without a completion signal.
C5_GracefulStop ==
    apc = "returned"
    => LET final == ReplyIdx # {} /\ ~HasToolUses(Max(ReplyIdx))
       IN  /\ final => ret.success = TRUE
           /\ ret.success = FALSE
                => (iteration = max_iterations /\ ~final /\ CompletingIdx = {})

\* C6: when the executor raises for a ToolCall, a ToolResult with
\* is_error=true and the exception message is appended for that ToolCall,
\* the run is not marked complete by it and the batch goes on with the next
\* ToolCall; when the batch's user turn is appended the executor has been
\* invoked for every ToolCall of the batch, and a batch without completion
\* signal and end_turn leads back to the loop test; run() is only ever left
\* by an exception of the LLM call, never of the executor.
C6_RaiseStep ==
    (/\ Len(events') = Len(events) + 1
     /\ events'[Len(events')][1] = "exec"
     /\ events'[Len(events')][3].kind = "raise")
    => /\ apc = "tools" /\ apc' = "tools"
       /\ tool_results' = Append(tool_results,
              [type |-> "tool_result",
               tool_use_id |-> ToolUses(response.content)[tool_idx][2],
               content |-> <<"Error: ", events'[Len(events')][3].obj>>,
               is_error |-> TRUE])
       /\ events'[Len(events')][2] = ToolUses(response.content)[tool_idx][2]
       /\ tool_idx' = tool_idx + 1
       /\ is_complete' = is_complete
       /\ final_data' = final_data
       /\ messages' = messages

C6_BatchEnd ==
    (apc = "tools" /\ apc' # "tools")
    => /\ Cardinality({i \in ExecIdx : i > Max(ReplyIdx)})
            = Len(ToolUses(response.content))
       /\ messages' = Append(messages, UserResults(tool_results))
       /\ (~is_complete /\ response.stop_reason # "end_turn") => apc' = "while"

C6_NoEscape ==
    apc' = "raised" => events'[Len(events')][1] = "llm_raise"

C6_ToolFailureContained == [][C6_RaiseStep /\ C6_BatchEnd /\ C6_NoEscape]_vars

\* the first ToolCall of a batch raised, the second was still executed, and
\* the LLM was called again
C6_Witness ==
    \E i \in ExecIdx :
      /\ events[i][3].kind = "raise"
      /\ i + 1 \in ExecIdx
      /\ i + 2 \in ReplyIdx
      /\ ~is_complete

\* C7: the run is ended by the completion signal iff some tool result of
\* the current batch is a mapping with complete=true: is_complete holds
\* exactly when such a result was returned in this run; the LLM is never
\* called after it; the run then returns only after the executor was invoked
\* for every ToolCall of that batch, with success=true and data that result;
\* a run without such a result returns data=None.
C7_CompletionSignal ==
    /\ runs > 0 => (is_complete <=> CompletingIdx # {})
    /\ \A i \in CompletingIdx : \A j \in LLMIdx : j < i
    /\ apc = "while" => ~is_complete
    /\ apc = "returned"
       => IF CompletingIdx # {}
          THEN /\ ret.success = TRUE
               /\ ret.data = events[Max(CompletingIdx)][3]
               /\ Cardinality({i \in ExecIdx : i > Max(ReplyIdx)})
                    = Len(ToolUses(response.content))
               /\ messages[Len(messages)] = UserResults(tool_results)
               /\ Len(tool_results) = Len(ToolUses(response.content))
          ELSE ret.data = NoneResult

\* a run that returned before its budget was used up, on a completion
\* signal given by the first of two ToolCalls of one batch
C7_Witness ==
    /\ apc = "returned"
    /\ CompletingIdx # {}
    /\ Max(CompletingIdx) < Max(ExecIdx)
    /\ ret.iterations < max_iterations

\* C21: in every state of the transcript, after any number of run() calls
\* on the instance, the first message is a user message and no two
\* consecutive messages have the same role.
C21_RolesAlternate ==
    /\ messages # <<>> => messages[1].role = "user"
    /\ \A i \in 1..(Len(messages) - 1) : messages[i].role # messages[i + 1].role

\* the step is the first LLM call of the current run()
C22_FirstLLMCall ==
    /\ Len(events') = Len(events) + 1
    /\ events'[Len(events')][1] \in {"llm", "llm_raise"}
    /\ LLMIdx = {}

\* C22: at the first LLM call of a run() the transcript handed to the LLM
\* is exactly one user message, the initial_prompt of this run: no message
\* of an earlier run() on the instance is sent.
C22_OwnConversation ==
    [][C22_FirstLLMCall => messages = <<UserPrompt(InitialPrompt(runs))>>]_vars

\* C23: the record run() returns has success = (a completion signal was
\* recorded) or (iterations < max_iterations), iterations = the number of
\* loop passes = the number of LLM calls of the run, and data = the recorded
\* completion payload, None when there is none.
C23_ReturnedRecord ==
    apc = "returned"
    => /\ ret.success = (CompletingIdx # {} \/ ret.iterations < max_iterations)
       /\ ret.iterations = iteration
       /\ ret.iterations = Cardinality(LLMIdx)
       /\ ret.data = IF CompletingIdx # {}
                     THEN events[Max(CompletingIdx)][3]
                     ELSE NoneResult
       /\ ret.data = final_data

\* a run completed by a signal on its last allowed pass: success=true with
\* iterations = max_iterations = 2 = the number of LLM calls, data the
\* result that carried the signal
C23_Witness ==
    /\ apc = "returned"
    /\ max_iterations = 2
    /\ ret.iterations = 2
    /\ Cardinality(LLMIdx) = 2
    /\ ret.success
    /\ ret.data.kind = "dict" /\ ret.data.complete = "True"

\* the step is a loop pass: it makes the LLM call of lines 65-69
C24_LoopPass ==
    /\ Len(events') = Len(events) + 1
    /\ events'[Len(events')][1] \in {"llm", "llm_raise"}
\* the step is the start of a run()
C24_RunStarts ==
    /\ Len(events') = Len(events) + 1
    /\ events'[Len(events')][1] = "run"
\* run() is executing
C24_Running == apc \in {"while", "tools", "after_loop"}

C24_Bounds ==
    /\ 0 <= iteration /\ iteration <= max_iterations
    /\ Cardinality(LLMIdx) <= max_iterations
    /\ runs > 0 => Cardinality(LLMIdx) = iteration
C24_CountsPasses ==
    /\ C24_LoopPass => iteration' = iteration + 1
    /\ C24_RunStarts => iteration' = 0
    /\ (~C24_LoopPass /\ ~C24_RunStarts) => iteration' = iteration

\* C24: in every state 0 <= iteration <= max_iterations and the LLM has
\* been called at most max_iterations times in the current run; a loop pass
\* adds exactly one to iteration and nothing else changes it but the start
\* of a run(), which sets it to 0; and, every LLM call and every tool call
\* returning or raising, a run() that was started ends (returns, or is
\* left by the exception of an LLM call).
C24_BoundedAndTerminates ==
    /\ []C24_Bounds
    /\ [][C24_CountsPasses]_vars
    /\ (C24_Running ~> Ended)

\* a run with max_iterations = 2 has made its two passes, each with a tool
\* batch and no completion signal, and has returned
C24_Witness ==
    /\ apc = "returned"
    /\ max_iterations = 2
    /\ iteration = 2
    /\ Cardinality(LLMIdx) = 2
    /\ Cardinality(ExecIdx) = 2
    /\ ~is_complete

\* C25: within a run() the completion payload is set once: a recorded
\* payload is never replaced by another result, also not by a later
\* ToolCall of the same batch that returns complete=true (only the start of
\* the next run() clears it).
C25_PayloadSetOnce ==
    [][(final_data # NoneResult /\ runs' = runs) => final_data' = final_data]_vars

\* the step is an LLM call that returns a reply without ToolCalls
C29_FinalReply ==
    /\ Len(events') = Len(events) + 1
    /\ events'[Len(events')][1] = "llm"
    /\ ToolUses(events'[Len(events')][2].content) = <<>>
\* that step appends the reply as one assistant message and leaves the loop
C29_ReplyStep ==
    C29_FinalReply
    => /\ messages' = Append(messages, AssistantMsg(events'[Len(events')][2].content))
       /\ apc' = "after_loop"
\* once the current run() has got a reply without ToolCalls, that reply is
\* the last call of the run (no executor call, no LLM call after it), the
\* assistant message is the last message and run() is returning
C29_AfterReply ==
    (runs > 0 /\ ReplyIdx # {} /\ ~HasToolUses(Max(ReplyIdx)))
    => /\ Max(ReplyIdx) = Len(events)
       /\ Cardinality({i \in 1..Len(messages) : messages[i].role = "assistant"})
            = Cardinality({i \in 1..Len(events) : events[i][1] = "llm"})
       /\ messages[Len(messages)] = AssistantMsg(events[Len(events)][2].content)
       /\ apc \in {"after_loop", "returned"}

\* C29: a reply without ToolCalls, at whichever pass, is appended as
\* exactly one assistant message; no user turn follows it in the run, the
\* executor is not invoked for it, and the run ends without another LLM
\* call.
C29_FinalAnswerEndsRun == []C29_AfterReply /\ [][C29_ReplyStep]_vars

\* the second pass of a run got a reply without ToolCalls after a batch of
\* the first pass; run() has returned with the reply as last message
C29_Witness ==
    /\ apc = "returned"
    /\ iteration = 2
    /\ ExecIdx # {}
    /\ ~HasToolUses(Max(ReplyIdx))
    /\ messages[Len(messages)].role = "assistant"
    /\ messages[Len(messages) - 1].role = "user"

\* the replies of the current run() that hold ToolCalls and stopped with
\* end_turn
C30_EndTurnWithTools ==
    {i \in ReplyIdx : HasToolUses(i) /\ events[i][2].stop_reason = "end_turn"}

\* C30: a reply with ToolCalls and stop reason end_turn is the last LLM
\* call of its run; the loop goes on to the loop test neither during nor
\* after its batch; when the loop has stopped the executor has been invoked
\* for every ToolCall of the reply and the results are the last message, a
\* user turn with one result per ToolCall; the run returns success =
\* (completed or iterations < max_iterations).
C30_EndTurnAfterBatch ==
    \A i \in C30_EndTurnWithTools :
      /\ i = Max(LLMIdx)
      /\ apc \in {"tools", "after_loop", "returned"}
      /\ apc \in {"after_loop", "returned"}
         => /\ Cardinality({e \in ExecIdx : e > i})
                 = Len(ToolUses(events[i][2].content))
            /\ messages[Len(messages)] = UserResults(tool_results)
            /\ Len(tool_results) = Len(ToolUses(events[i][2].content))
            /\ messages[Len(messages) - 1] = AssistantMsg(events[i][2].content)
      /\ apc = "returned"
         => ret.success = (CompletingIdx # {} \/ ret.iterations < max_iterations)

\* the first reply of a run with max_iterations = 2 held two ToolCalls and
\* stopped with end_turn; both were executed, none signalled completion,
\* and run() returned success=true after one pass
C30_Witness ==
    /\ apc = "returned"
    /\ max_iterations = 2
    /\ C30_EndTurnWithTools # {}
    /\ Cardinality(ExecIdx) = 2
    /\ CompletingIdx = {}
    /\ ret.iterations = 1
    /\ ret.success

\* ---- final_message ----
\* the text blocks of the last assistant reply of the run, in order
C31_ReplyTexts ==
    SelectSeq(events[Max(ReplyIdx)][2].content, LAMBDA b : b[1] = "text")

\* C31: at return, final_message is the text of the last turn of the
\* transcript.  When that turn is an assistant reply (the run ended on a
\* reply without tool calls) it is the texts of the reply's text blocks, in
\* order, separated by one space.  When it is the user turn that answers a
\* tool batch (completion signal, end_turn with tools, or budget exhausted)
\* it is the text of that turn, which is empty, whatever text the assistant
\* wrote before the batch.  When no reply was made at all it is the prompt.
C31_FinalMessage ==
    apc = "returned"
    => LET turn == messages[Len(messages)]
           n == Len(C31_ReplyTexts)
       IN  IF ReplyIdx = {}
           THEN /\ turn = UserPrompt(InitialPrompt(runs))
                /\ ret.final_message = InitialPrompt(runs)
           ELSE IF ~HasToolUses(Max(ReplyIdx))
           THEN /\ turn = AssistantMsg(events[Max(ReplyIdx)][2].content)
                /\ Len(ret.final_message) = IF n = 0 THEN 0 ELSE 2 * n - 1
                /\ \A i \in 1..n :
                     ret.final_message[2 * i - 1] = C31_ReplyTexts[i][2][1]
                /\ \A i \in 1..(n - 1) : ret.final_message[2 * i] = " "
           ELSE /\ turn.role = "user"
                /\ turn.content[1] = "results"
                /\ ret.final_message = <<>>

\* a run that ended on a reply of two text blocks
C31_Witness ==
    /\ apc = "returned"
    /\ ReplyIdx # {}
    /\ ~HasToolUses(Max(ReplyIdx))
    /\ Len(C31_ReplyTexts) = 2
    /\ ret.final_message = <<"t", " ", "u">>

\* ---- max_iterations = 0 ----
\* C36: when run() returns with max_iterations = 0, neither the LLM nor
\* the tool executor was invoked during the run, the returned record has
\* iterations = 0, success = false and data = None, and the transcript holds
\* only the initial user message of the run.
C36_ZeroBudget ==
    (apc = "returned" /\ max_iterations = 0)
    => /\ LLMIdx = {}
       /\ ExecIdx = {}
       /\ ret.iterations = 0
       /\ ret.success = FALSE
       /\ ret.data = NoneResult
       /\ messages = <<UserPrompt(InitialPrompt(runs))>>

\* ---- the output tools of the two agents ----
\* the executor invocations of the r-th run() that signalled completion
C37_Completing(r) ==
    {i \in 1..Len(events) :
        /\ events[i][1] = "exec"
        /\ SignalsCompletion(events[i][3])
        /\ Cardinality({j \in 1..i : events[j][1] = "run"}) = r}

\* the attribute the output tool offered in the r-th run() stores into
C37_Stored(r) ==
    IF outputs.cls = "SpecificationIngestionAgent" THEN outputs.specification
    ELSE IF r = 1 THEN outputs.requirements
    ELSE outputs.workflows

\* the step is an executor invocation that returned complete = False: an
\* output call whose input failed validation
C37_RejectedCall ==
    /\ Len(events') = Len(events) + 1
    /\ events'[Len(events')][1] = "exec"
    /\ events'[Len(events')][3].kind = "dict"
    /\ events'[Len(events')][3].complete = "False"

None == <<"null", 0>>
Str(text) == <<"str", text>>
Int_(n) == <<"int", n>>
Map(pairs) == <<"map", pairs>>

\* the characters of the names and values of BUILTIN_VARIABLES
customer_username ==
    <<"c","u","s","t","o","m","e","r","_","u","s","e","r","n","a","m","e">>
store_owner_username ==
    <<"s","t","o","r","e","_","o","w","n","e","r","_","u","s","e","r","n","a","m","e">>
admin_username == <<"a","d","m","i","n","_","u","s","e","r","n","a","m","e">>
test_password == <<"t","e","s","t","_","p","a","s","s","w","o","r","d">>
available_pet_id == <<"a","v","a","i","l","a","b","l","e","_","p","e","t","_","i","d">>
pending_pet_id == <<"p","e","n","d","i","n","g","_","p","e","t","_","i","d">>
sold_pet_id == <<"s","o","l","d","_","p","e","t","_","i","d">>

\* a function from its list of <<key, value>> pairs (later pairs win)
RECURSIVE DictOf(_)
DictOf(pairs) ==
    IF pairs = <<>> THEN <<>>
    ELSE LET n == Len(pairs)
             rest == DictOf(SubSeq(pairs, 1, n - 1))
         IN  [k \in DOMAIN rest \cup {pairs[n][1]} |->
                 IF k = pairs[n][1] THEN pairs[n][2] ELSE rest[k]]

\* class attribute BUILTIN_VARIABLES (lines 16-24)
BUILTIN_VARIABLES ==
    DictOf(<< <<customer_username, <<"c","u","s","t","o","m","e","r","1">> >>,
              <<store_owner_username, <<"s","t","o","r","e","o","w","n","e","r">> >>,
              <<admin_username, <<"a","d","m","i","n">> >>,
              <<test_password, <<"p","a","s","s","w","o","r","d">> >>,
              <<available_pet_id, <<"1">> >>,
              <<pending_pet_id, <<"5">> >>,
              <<sold_pet_id, <<"6">> >> >>)

\* a[i:j] of Python for 0 <= i, with j counted from the end when negative
Slice(text, i, j) ==
    LET stop == IF j < 0 THEN Len(text) + j ELSE IF j > Len(text) THEN Len(text) ELSE j
    IN  IF stop <= i THEN <<>> ELSE SubSeq(text, i + 1, stop)

\* text.startswith(prefix)
StartsWith(text, prefix) ==
    Len(text) >= Len(prefix) /\ SubSeq(text, 1, Len(prefix)) = prefix

\* the position of the first `ch` of text at or after position i; 0 if none
RECURSIVE Find(_, _, _)
Find(text, ch, i) ==
    IF i > Len(text) THEN 0
    ELSE IF text[i] = ch THEN i ELSE Find(text, ch, i + 1)

\* The regular expression \{\{([^}]+)\}\} of line 220 tried at position i:
\* the position of the last character of the match, 0 when there is none.
MatchEnd(text, i) ==
    IF i + 1 > Len(text) \/ text[i] # "{" \/ text[i + 1] # "{" THEN 0
    ELSE LET j == Find(text, "}", i + 2)
         IN  IF j > i + 2 /\ j + 1 <= Len(text) /\ text[j + 1] = "}"
             THEN j + 1 ELSE 0

\* re.sub over text[i..]: leftmost matches, left to right, replacements are
\* not scanned again; replace_var looks the name up in the store and keeps
\* the match when the name is unknown (lines 216-220)
RECURSIVE SubstituteFrom(_, _, _)
SubstituteFrom(text, i, store) ==
    IF i > Len(text) THEN <<>>
    ELSE LET e == MatchEnd(text, i)
         IN  IF e = 0
             THEN <<text[i]>> \o SubstituteFrom(text, i + 1, store)
             ELSE LET var_name == SubSeq(text, i + 2, e - 2)
                  IN  (IF var_name \in DOMAIN store
                       THEN store[var_name]
                       ELSE SubSeq(text, i, e))
                      \o SubstituteFrom(text, e + 1, store)

\* a bug: self.variables.get(var_name, '') drops the unknown placeholders
SubstituteVariables_DropsUnknown(text, store) ==
    SubstituteFrom(text, 1,
        [n \in DOMAIN store \cup {<<"u">>, <<"t">>} |->
            IF n \in DOMAIN store THEN store[n] ELSE <<>>])

\* a bug: the name is looked up without a `save:` in front of it
SubstituteVariables_SavePrefix(text, store) ==
    SubstituteFrom(text, 1,
        [n \in DOMAIN store \cup {<<"s", "a", "v", "e", ":">> \o k : k \in DOMAIN store} |->
            IF n \in DOMAIN store THEN store[n] ELSE store[SubSeq(n, 6, Len(n))]])

\* _substitute_variables (lines 214-220)
SubstituteVariables(text, store) == SubstituteFrom(text, 1, store)

\* str(n) for an integer n
RECURSIVE Digits(_)
Digits(n) ==
    LET d == <<"0","1","2","3","4","5","6","7","8","9">>
    IN  IF n < 0 THEN <<"-">> \o Digits(-n)
        ELSE IF n < 10 THEN <<d[n + 1]>>
        ELSE Digits(n \div 10) \o <<d[(n % 10) + 1]>>

\* str(value) for a scalar value
PyStr(v) ==
    CASE v[1] = "str" -> v[2]
      [] v[1] = "int" -> Digits(v[2])
      [] v[1] = "bool" -> IF v[2] THEN <<"T","r","u","e">> ELSE <<"F","a","l","s","e">>
      [] v[1] = "null" -> <<"N","o","n","e">>

\* truth value of a Python object
PyTruthy(v) ==
    CASE v[1] = "str" -> v[2] # <<>>
      [] v[1] = "int" -> v[2] # 0
      [] v[1] = "bool" -> v[2]
      [] v[1] = "null" -> FALSE
      [] v[1] \in {"map", "list"} -> v[2] # <<>>

\* a bug: the elements of a list are returned as they are
SubstituteVariablesInObj_ListsSkipped(obj, store) ==
    CASE obj[1] = "str" -> Str(SubstituteVariables(obj[2], store))
      [] obj[1] = "map" ->
           Map([i \in 1..Len(obj[2]) |->
                  <<obj[2][i][1],
                    IF obj[2][i][2][1] = "str"
                    THEN Str(SubstituteVariables(obj[2][i][2][2], store))
                    ELSE obj[2][i][2]>>])
      [] OTHER -> obj

\* _substitute_variables_in_obj (lines 222-231)
RECURSIVE SubstituteVariablesInObj(_, _)
SubstituteVariablesInObj(obj, store) ==
    CASE obj[1] = "str" -> Str(SubstituteVariables(obj[2], store))
      [] obj[1] = "map" ->
           Map([i \in 1..Len(obj[2]) |->
                  <<obj[2][i][1], SubstituteVariablesInObj(obj[2][i][2], store)>>])
      [] obj[1] = "list" ->
           <<"list", [i \in 1..Len(obj[2]) |->
                        SubstituteVariablesInObj(obj[2][i], store)]>>
      [] OTHER -> obj

\* d.get(key) of a mapping given as a sequence of pairs: None when absent
HasKey(m, key) == \E i \in 1..Len(m[2]) : m[2][i][1] = key
Get(m, key) ==
    IF HasKey(m, key)
    THEN m[2][CHOOSE i \in 1..Len(m[2]) : m[2][i][1] = key][2]
    ELSE None

(***************************************************************************)
(* WorkflowRunner._execute_step                                            *)
(***************************************************************************)
\* the pieces of a step definition (step.get(...) defaults filled in)
Step(action, query, headers, body, status, body_contains) ==
    [action |-> action, query |-> query, headers |-> headers, body |-> body,
     expect |-> [status |-> status, body_contains |-> body_contains]]

\* self.base_url: an opaque prefix without placeholder characters
base_url == <<"http://localhost:3002">>

\* action.split(' ', 1)   (line 116)
SplitAction(action) ==
    LET sp == Find(action, " ", 1)
    IN  IF sp = 0 THEN <<action>>
        ELSE <<SubSeq(action, 1, sp - 1), SubSeq(action, sp + 1, Len(action))>>

\* str.upper() on the letters the model's methods are written with
Upper(text) ==
    [i \in 1..Len(text) |->
        CASE text[i] = "g" -> "G" [] text[i] = "e" -> "E" [] text[i] = "t" -> "T"
          [] text[i] = "p" -> "P" [] text[i] = "o" -> "O" [] text[i] = "s" -> "S"
          [] OTHER -> text[i]]

\* '&'.join([f"{k}={v}" for k, v in query_params.items()])   (line 130)
RECURSIVE QueryString(_)
QueryString(pairs) ==
    IF pairs = <<>> THEN <<>>
    ELSE pairs[1][1] \o <<"=">> \o PyStr(pairs[1][2])
         \o (IF Len(pairs) > 1 THEN <<"&">> \o QueryString(Tail(pairs)) ELSE <<>>)

\* the path with the step's query parameters (lines 124-134)
RequestPath(step, store) ==
    LET path == SubstituteVariables(SplitAction(step.action)[2], store)
    IN  IF PyTruthy(step.query)
        THEN LET query_string ==
                     QueryString(SubstituteVariablesInObj(step.query, store)[2])
             IN  IF Find(path, "?", 1) # 0
                 THEN path \o <<"&">> \o query_string
                 ELSE path \o <<"?">> \o query_string
        ELSE path

\* the header mapping (lines 140-149)
RequestHeaders(step, store) ==
    [i \in 1..Len(step.headers[2]) |->
        <<step.headers[2][i][1],
          SubstituteVariables(PyStr(step.headers[2][i][2]), store)>>]
    \o (IF PyTruthy(step.body)
        THEN << <<"Content-Type", <<"application/json">> >> >>
        ELSE <<>>)

\* urllib.request.Request(url, data=body, headers=headers, method=method)
\* built from the store as it is when the step starts (lines 123-153)
BuildRequest(step, store) ==
    [method |-> Upper(SplitAction(step.action)[1]),
     url |-> base_url \o RequestPath(step, store),
     headers |-> RequestHeaders(step, store),
     data |-> IF PyTruthy(step.body)
              THEN <<"json.dumps", SubstituteVariablesInObj(step.body, store)>>
              ELSE None]

NoRequest == [method |-> <<>>, url |-> <<>>, headers |-> <<>>, data |-> None]

\* What the HTTP round trip of one step can give: a response with a status
\* and a body that is JSON (a mapping of fields to scalars) or not, or a
\* transport exception.
Response(status, is_json, fields) ==
    [kind |-> "response", status |-> status, is_json |-> is_json,
     json |-> IF is_json THEN Map(fields) ELSE None]
TransportError ==
    [kind |-> "error", status |-> 0, is_json |-> FALSE, json |-> None]
\* no round trip: the step returned before it made a request
NoExchange ==
    [kind |-> "none", status |-> 0, is_json |-> FALSE, json |-> None]

\* response_body, the raw text of the body (lines 158 and 165)
ResponseBody(outcome) ==
    IF outcome.is_json THEN <<"json.dumps", outcome.json>> ELSE <<"text", None>>

\* a StepResult; keys the Python dict does not hold are None / empty
StepResult(success, error, status, actual_status, resp) ==
    [success |-> success, error |-> error, status |-> status,
     actual_status |-> actual_status, response |-> resp]

\* a bug: one closing brace is left in the name
SaveName_OffByOne(expected_value) == Slice(expected_value, 7, -1)

\* var_name = expected_value[7:-2]   (line 187)
SaveName(expected_value) == Slice(expected_value, 7, -2)

\* isinstance(expected_value, str) and expected_value.startswith('{{save:')
IsSave(expected_value) ==
    /\ expected_value[1] = "str"
    /\ StartsWith(expected_value[2], <<"{", "{", "s", "a", "v", "e", ":">>)

\* The for loop over body_contains.items() from entry i on (lines 184-200):
\* the store after it, the captures it made, and the error of the entry
\* that failed (<<>> when none did).
RECURSIVE CheckBodyFrom(_, _, _, _)

\* a bug: the directive writes str(response_json.get(key)), which is the
\* text None for a field the response does not have
CheckBodyFrom_AbsentWritesNone(pairs, i, store, response_json) ==
    IF i > Len(pairs)
    THEN [store |-> store, error |-> <<>>, wrote |-> <<>>]
    ELSE
      LET key == pairs[i][1]
          expected_value == pairs[i][2]
      IN
      IF IsSave(expected_value)
      THEN LET var_name == SaveName(expected_value[2])
               value == PyStr(Get(response_json, key))
               new == [n \in DOMAIN store \cup {var_name} |->
                          IF n = var_name THEN value ELSE store[n]]
               rest == CheckBodyFrom(pairs, i + 1, new, response_json)
           IN  [rest EXCEPT !.wrote = << <<var_name, value>> >> \o @]
      ELSE LET actual_value == Get(response_json, key)
               expected_substituted == SubstituteVariables(PyStr(expected_value), store)
           IN  IF PyStr(actual_value) # expected_substituted
               THEN [store |-> store,
                     error |-> <<"Expected ">> \o key \o <<"=">> \o expected_substituted
                               \o <<", got ">> \o PyStr(actual_value),
                     wrote |-> <<>>]
               ELSE CheckBodyFrom(pairs, i + 1, store, response_json)

CheckBodyFrom(pairs, i, store, response_json) ==
    IF i > Len(pairs)
    THEN [store |-> store, error |-> <<>>, wrote |-> <<>>]
    ELSE
      LET key == pairs[i][1]
          expected_value == pairs[i][2]
      IN
      IF IsSave(expected_value)
      THEN LET var_name == SaveName(expected_value[2])
           IN  IF HasKey(response_json, key)
               THEN LET value == PyStr(Get(response_json, key))
                        new == [n \in DOMAIN store \cup {var_name} |->
                                   IF n = var_name THEN value ELSE store[n]]
                        rest == CheckBodyFrom(pairs, i + 1, new, response_json)
                    IN  [rest EXCEPT !.wrote = << <<var_name, value>> >> \o @]
               ELSE CheckBodyFrom(pairs, i + 1, store, response_json)
      ELSE LET actual_value == Get(response_json, key)
               expected_substituted == SubstituteVariables(PyStr(expected_value), store)
           IN  IF PyStr(actual_value) # expected_substituted
               THEN [store |-> store,
                     error |-> <<"Expected ">> \o key \o <<"=">> \o expected_substituted
                               \o <<", got ">> \o PyStr(actual_value),
                     wrote |-> <<>>]
               ELSE CheckBodyFrom(pairs, i + 1, store, response_json)

\* expected_status and status != expected_status   (line 173)
StatusMismatch(expect, status) ==
    PyTruthy(expect.status) /\ Int_(status) # expect.status

\* a bug: the body is checked (and captured from) before the status
CheckExpectations_BodyFirst(expect, store, outcome) ==
    LET checked ==
          IF PyTruthy(expect.body_contains) /\ PyTruthy(outcome.json)
          THEN CheckBodyFrom(expect.body_contains[2], 1, store, outcome.json)
          ELSE [store |-> store, error |-> <<>>, wrote |-> <<>>]
    IN
    IF checked.error # <<>>
    THEN [result |-> StepResult(FALSE, checked.error, None, None, ResponseBody(outcome)),
          store |-> checked.store, wrote |-> checked.wrote]
    ELSE IF StatusMismatch(expect, outcome.status)
    THEN [result |-> StepResult(FALSE,
                        <<"Expected status ">> \o PyStr(expect.status)
                          \o <<", got ">> \o Digits(outcome.status),
                        None, Int_(outcome.status), ResponseBody(outcome)),
          store |-> checked.store, wrote |-> checked.wrote]
    ELSE [result |-> StepResult(TRUE, <<>>, Int_(outcome.status), None, outcome.json),
          store |-> checked.store, wrote |-> checked.wrote]

\* a variant: the captures of a step that fails are undone
CheckExpectations_RollsBack(expect, store, outcome) ==
    IF StatusMismatch(expect, outcome.status)
    THEN [result |-> StepResult(FALSE,
                        <<"Expected status ">> \o PyStr(expect.status)
                          \o <<", got ">> \o Digits(outcome.status),
                        None, Int_(outcome.status), ResponseBody(outcome)),
          store |-> store, wrote |-> <<>>]
    ELSE
      LET checked ==
            IF PyTruthy(expect.body_contains) /\ PyTruthy(outcome.json)
            THEN CheckBodyFrom(expect.body_contains[2], 1, store, outcome.json)
            ELSE [store |-> store, error |-> <<>>, wrote |-> <<>>]
      IN  IF checked.error # <<>>
          THEN [result |-> StepResult(FALSE, checked.error, None, None,
                                      ResponseBody(outcome)),
                store |-> store, wrote |-> <<>>]
          ELSE [result |-> StepResult(TRUE, <<>>, Int_(outcome.status), None,
                                      outcome.json),
                store |-> checked.store, wrote |-> checked.wrote]

\* "Check expectations" of a received response (lines 171-206)
CheckExpectations(expect, store, outcome) ==
    IF StatusMismatch(expect, outcome.status)
    THEN [result |-> StepResult(FALSE,
                        <<"Expected status ">> \o PyStr(expect.status)
                          \o <<", got ">> \o Digits(outcome.status),
                        None, Int_(outcome.status), ResponseBody(outcome)),
          store |-> store, wrote |-> <<>>]
    ELSE
      LET checked ==
            IF PyTruthy(expect.body_contains) /\ PyTruthy(outcome.json)
            THEN CheckBodyFrom(expect.body_contains[2], 1, store, outcome.json)
            ELSE [store |-> store, error |-> <<>>, wrote |-> <<>>]
      IN  IF checked.error # <<>>
          THEN [result |-> StepResult(FALSE, checked.error, None, None,
                                      ResponseBody(outcome)),
                store |-> checked.store, wrote |-> checked.wrote]
          ELSE [result |-> StepResult(TRUE, <<>>, Int_(outcome.status), None,
                                      outcome.json),
                store |-> checked.store, wrote |-> checked.wrote]

\* does the action parse into method and path?   (line 117)
ActionParses(step) == Len(SplitAction(step.action)) = 2

\* The statements before the try block (lines 112-149) raise AttributeError
\* where they call .items() on what is no mapping: a truthy query (line
\* 130) and the headers, None included (line 141).  Nothing catches it in
\* _execute_step, run_workflow or run_workflows.
StepRaises(step) ==
    /\ ActionParses(step)
    /\ \/ PyTruthy(step.query) /\ step.query[1] # "map"
       \/ step.headers[1] # "map"

\* a bug: the request is built after the expectations are checked, from the
\* store that holds the step's own captures
ExecuteStep_RequestAfter(step, store, outcome) ==
    IF ~ActionParses(step)
    THEN [result |-> StepResult(FALSE, <<"Invalid action format: ">> \o step.action,
                                None, None, None),
          store |-> store, wrote |-> <<>>, request |-> NoRequest]
    ELSE IF outcome.kind = "error"
    THEN [result |-> StepResult(FALSE, <<"Request failed: ", "URLError">>,
                                None, None, None),
          store |-> store, wrote |-> <<>>, request |-> BuildRequest(step, store)]
    ELSE LET checked == CheckExpectations(step.expect, store, outcome)
         IN  [request |-> BuildRequest(step, checked.store)] @@ checked

\* a bug: a transport exception is swallowed and the step passes
ExecuteStep_TransportPasses(step, store, outcome) ==
    IF ~ActionParses(step)
    THEN [result |-> StepResult(FALSE, <<"Invalid action format: ">> \o step.action,
                                None, None, None),
          store |-> store, wrote |-> <<>>, request |-> NoRequest]
    ELSE IF outcome.kind = "error"
    THEN [result |-> StepResult(TRUE, <<>>, None, None, None),
          store |-> store, wrote |-> <<>>, request |-> BuildRequest(step, store)]
    ELSE [request |-> BuildRequest(step, store)]
         @@ CheckExpectations(step.expect, store, outcome)

\* a bug: no `except urllib.error.HTTPError`, so that a 4xx or 5xx answer
\* ends in the outer except branch like a transport failure
ExecuteStep_ErrorStatusRaises(step, store, outcome) ==
    IF ~ActionParses(step)
    THEN [result |-> StepResult(FALSE, <<"Invalid action format: ">> \o step.action,
                                None, None, None),
          store |-> store, wrote |-> <<>>, request |-> NoRequest]
    ELSE IF outcome.kind = "error" \/ outcome.status >= 400
    THEN [result |-> StepResult(FALSE, <<"Request failed: ", "HTTPError">>,
                                None, None, None),
          store |-> store, wrote |-> <<>>, request |-> BuildRequest(step, store)]
    ELSE [request |-> BuildRequest(step, store)]
         @@ CheckExpectations(step.expect, store, outcome)

\* _execute_step (lines 110-212) for a step, the store at its start and what
\* the HTTP round trip gives: the StepResult, the store after the step, the
\* captures made and the request issued.
ExecuteStep(step, store, outcome) ==
    IF ~ActionParses(step)
    THEN [result |-> StepResult(FALSE, <<"Invalid action format: ">> \o step.action,
                                None, None, None),
          store |-> store, wrote |-> <<>>, request |-> NoRequest]
    ELSE IF outcome.kind = "error"
    THEN \* except Exception as e (lines 208-212)
         [result |-> StepResult(FALSE, <<"Request failed: ", "URLError">>,
                                None, None, None),
          store |-> store, wrote |-> <<>>, request |-> BuildRequest(step, store)]
    ELSE [request |-> BuildRequest(step, store)]
         @@ CheckExpectations(step.expect, store, outcome)

(***************************************************************************)
(* WorkflowRunner: the inputs of the model                                 *)
(***************************************************************************)
t == <<"t">>
id == <<"i", "d">>
token == <<"t", "o", "k", "e", "n">>
\* "{{name}}" and "{{save:name}}"
Ref(name) == <<"{", "{">> \o name \o <<"}", "}">>
Save(name) == <<"{", "{", "s", "a", "v", "e", ":">> \o name \o <<"}", "}">>
NoMap == Map(<<>>)
GetP == <<"g", "e", "t", " ", "/", "p">>

\* a login that captures the token
LoginStep ==
    Step(<<"p", "o", "s", "t", " ", "/", "l">>, NoMap, NoMap,
         Map(<< <<"username", Str(Ref(customer_username))>> >>),
         Int_(200), Map(<< <<token, Str(Save(t))>> >>))
\* a request that uses the captured token in path, query, header and
\* expectation, without status expectation
UseStep ==
    Step(<<"g", "e", "t", " ", "/">> \o Ref(t),
         Map(<< <<<<"q">>, Str(Ref(t))>> >>),
         Map(<< <<"Authorization", Str(<<"B", " ">> \o Ref(t))>> >>),
         None, None, Map(<< <<token, Str(Ref(t))>> >>))
\* a request that uses {{t}} in path, query, header and body, and whose
\* expectation captures a new value of t
RefreshStep ==
    Step(<<"g", "e", "t", " ", "/">> \o Ref(t),
         Map(<< <<<<"q">>, Str(Ref(t))>> >>),
         Map(<< <<"Authorization", Str(<<"B", " ">> \o Ref(t))>> >>),
         Map(<< <<"old", Str(Ref(t))>> >>),
         Int_(200), Map(<< <<token, Str(Save(t))>> >>))
\* an action without a space
MalformedStep ==
    Step(<<"g", "e", "t", "/", "p">>, NoMap, NoMap, None, Int_(200), NoMap)

\* a step that compares a field with a built-in variable and then
\* overwrites that variable with another field
OverwriteStep ==
    Step(GetP, NoMap, NoMap, None, Int_(200),
         Map(<< <<id, Str(Ref(available_pet_id))>>,
                <<token, Str(Save(available_pet_id))>> >>))
\* a step written with `headers:` and no value, which YAML reads as null
NullHeadersStep ==
    Step(GetP, NoMap, None, None, Int_(200), NoMap)

\* steps whose expectation starts like a capture directive without being
\* one: `{{save:t}}x` has text after the closing braces, `{{save:t` lacks them
TrailingTextStep ==
    Step(GetP, NoMap, NoMap, None, Int_(200),
         Map(<< <<token, Str(Save(t) \o <<"x">>)>> >>))
UnclosedStep ==
    Step(GetP, NoMap, NoMap, None, Int_(200),
         Map(<< <<token, Str(<<"{", "{", "s", "a", "v", "e", ":", "t">>)>> >>))

\* The step definitions of RunnerSpec.
BatchSteps == {LoginStep, UseStep, MalformedStep}

\* The step definitions of RawSpec: steps as a workflow file gives them,
\* well typed or not.
RawSteps == {OverwriteStep, NullHeadersStep, TrailingTextStep, UnclosedStep}

\* The step definitions of StepSpec.
StepDefs ==
    BatchSteps \cup
    { \* GET /p with a status and a literal field
      Step(GetP, NoMap, NoMap, None, Int_(200), Map(<< <<id, Int_(1)>> >>)),
      \* no status expectation; a comparison, then a capture
      Step(GetP, NoMap, NoMap, None, None,
           Map(<< <<id, Int_(1)>>, <<token, Str(Save(t))>> >>)),
      \* a capture, then a comparison
      Step(GetP, NoMap, NoMap, None, Int_(200),
           Map(<< <<token, Str(Save(t))>>, <<id, Int_(1)>> >>)),
      \* two captures into the same variable
      Step(GetP, NoMap, NoMap, None, Int_(200),
           Map(<< <<token, Str(Save(t))>>, <<id, Str(Save(t))>> >>)),
      RefreshStep }

OkResponse ==
    Response(200, TRUE, << <<id, Int_(1)>>, <<token, Str(<<"a", "b">>)>> >>)
NotFound ==
    Response(404, TRUE, << <<id, Int_(1)>>, <<token, Str(<<"a", "b">>)>> >>)
\* the same fields with other values
OtherResponse ==
    Response(200, TRUE, << <<id, Int_(2)>>, <<token, Str(<<"c", "d">>)>> >>)

\* What the service answers in RunnerSpec.
BatchOutcomes == {OkResponse, NotFound, TransportError}

\* What the service answers in RawSpec.
RawOutcomes == {OkResponse, NotFound}

\* What the service answers in StepSpec.
HTTPOutcomes ==
    BatchOutcomes \cup
    { Response(200, TRUE, << <<id, Int_(2)>>, <<token, Str(<<"c", "d">>)>> >>),
      Response(200, TRUE, << <<id, Int_(1)>> >>),
      \* the JSON text `{}`
      Response(200, TRUE, <<>>),
      \* a body that is not JSON
      Response(200, FALSE, <<>>) }

\* The statuses of StatusSpec: a success, a client error, a server error.
StatusCodes == {200, 404, 500}
\* The step definitions of StatusSpec: a status is expected, no field is.
StatusSteps == {Step(GetP, NoMap, NoMap, None, Int_(code), NoMap) : code \in StatusCodes}
\* What the service answers in StatusSpec: each status with a JSON body and
\* with a body that is not JSON (an empty one included); urlopen returns
\* the 2xx answers (lines 156-162) and raises HTTPError for the others
\* (lines 163-169).
StatusOutcomes ==
    {Response(code, TRUE, << <<id, Int_(1)>> >>) : code \in StatusCodes}
    \cup {Response(code, FALSE, <<>>) : code \in StatusCodes}

\* the lists of workflows run_workflows() is called with: a workflow is
\* given by its number of steps; the content of a step is drawn when the
\* loop of run_workflow() reaches it (no step is read before).
RECURSIVE SeqsUpTo(_, _)
SeqsUpTo(S, n) ==
    IF n = 0 THEN {<<>>}
    ELSE LET shorter == SeqsUpTo(S, n - 1)
         IN  shorter \cup {Append(q, x) : q \in shorter, x \in S}
WorkflowLists == SeqsUpTo(0..MaxSteps, MaxWorkflows)
ChainLists == {<<n>> : n \in 1..MaxChain}

\* The texts _substitute_variables() is applied to, each made of parts: a
\* literal, a placeholder of a name that steps capture, of a name that is
\* never in the store and of a built-in name, a capture directive, and
\* stray pairs of braces.
u == <<"u">>
TextParts ==
    { <<"/">>, Ref(t), Ref(u), Ref(available_pet_id), Save(t),
      <<"{", "{">>, <<"}", "}">> }
RECURSIVE Render(_)
Render(parts) == IF parts = <<>> THEN <<>> ELSE parts[1] \o Render(Tail(parts))
Texts == SeqsUpTo(TextParts, MaxParts)
NoSubst == [parts |-> <<>>, out |-> <<>>, active |-> FALSE]

NoSummary == [success |-> FALSE, total |-> -1, passed |-> -1, failed |-> -1,
              results |-> <<>>]
NoStep == [step |-> Step(<<>>, NoMap, NoMap, None, None, NoMap),
           before |-> <<>>, outcome |-> TransportError,
           result |-> StepResult(FALSE, <<>>, None, None, None),
           wrote |-> <<>>, after |-> <<>>]

(***************************************************************************)
(* WorkflowRunner: run_workflows and run_workflow                          *)
(***************************************************************************)
\* __init__ (lines 26-29)
RunnerInit ==
    /\ variables = BUILTIN_VARIABLES
    /\ results = <<>>
    /\ passed = 0
    /\ failed = 0
    /\ workflows = <<>>
    /\ wf_idx = 0
    /\ steps = <<>>
    /\ step_results = <<>>
    /\ workflow_success = TRUE
    /\ rpc = "idle"
    /\ summary = NoSummary
    /\ calls = 0
    /\ http_log = <<>>
    /\ capture_log = <<>>
    /\ last = NoStep
    /\ wf_no = 0
    /\ wf_log = <<>>
    /\ subst = NoSubst

\* run_workflows(ws) up to its for loop (lines 41-45)
RunWorkflows(ws) ==
    /\ rpc \in {"idle", "returned", "raised"}
    /\ workflows' = ws
    /\ results' = <<>>
    /\ passed' = 0
    /\ failed' = 0
    /\ wf_idx' = 1
    /\ calls' = calls + 1
    /\ summary' = NoSummary
    /\ rpc' = "for_workflows"
    /\ wf_log' = <<>>
    /\ UNCHANGED <<variables, steps, step_results, workflow_success,
                   http_log, capture_log, last, wf_no, subst>>
    /\ UNCHANGED <<agentVars, pairVars>>

\* a bug: the store of the previous workflow is kept
ResetVariables_Keep == variables

\* self.variables = dict(self.BUILTIN_VARIABLES)   (line 78)
ResetVariables == BUILTIN_VARIABLES

\* run_workflow() up to its for loop (lines 72-83)
StartWorkflow ==
    /\ rpc = "for_workflows"
    /\ wf_idx <= Len(workflows)
    /\ variables' = ResetVariables
    /\ steps' = <<>>
    /\ step_results' = <<>>
    /\ workflow_success' = TRUE
    /\ wf_no' = wf_no + 1
    /\ wf_log' = Append(wf_log, [nsteps |-> workflows[wf_idx], steps |-> <<>>,
                                 outcomes |-> <<>>, nresults |-> 0,
                                 success |-> TRUE, done |-> FALSE])
    /\ rpc' = "for_steps"
    /\ UNCHANGED <<results, passed, failed, workflows, wf_idx, summary, calls,
                   http_log, capture_log, last, subst>>
    /\ UNCHANGED <<agentVars, pairVars>>

\* a bug: the loop goes on after a failed step
StopsWorkflow_Never(step_result) == FALSE

\* if not step_result['success']: ... break   (lines 89-98)
StopsWorkflow(step_result) == ~step_result.success

\* one pass of the for loop over the steps (lines 85-100): the step the
\* loop reads is `step`, its HTTP round trip gives `outcome`
RunStep(step, outcome) ==
    IF StepRaises(step)
    THEN \* the exception leaves run_workflow and run_workflows
         /\ steps' = Append(steps, step)
         /\ rpc' = "raised"
         /\ UNCHANGED <<variables, results, passed, failed, workflows, wf_idx,
                        step_results, workflow_success, summary, calls,
                        http_log, capture_log, last, wf_no, wf_log, subst>>
         /\ UNCHANGED <<agentVars, pairVars>>
    ELSE
    LET r == ExecuteStep(step, variables, outcome)
        step_num == Len(step_results) + 1
        exchange == IF r.request = NoRequest THEN NoExchange ELSE outcome
    IN
    /\ steps' = Append(steps, step)
    /\ step_results' = Append(step_results, r.result)
    /\ variables' = r.store
    /\ IF StopsWorkflow(r.result)
       THEN /\ workflow_success' = FALSE
            /\ rpc' = "workflow_done"
       ELSE /\ UNCHANGED workflow_success
            /\ rpc' = "for_steps"
    /\ http_log' = IF r.request = NoRequest THEN http_log
                   ELSE Append(http_log, [wf |-> wf_no, step_num |-> step_num,
                                          request |-> r.request])
    /\ capture_log' = capture_log
                      \o [i \in 1..Len(r.wrote) |->
                            [wf |-> wf_no, step_num |-> step_num,
                             name |-> r.wrote[i][1], value |-> r.wrote[i][2]]]
    /\ last' = [step |-> step, before |-> variables, outcome |-> exchange,
                result |-> r.result, wrote |-> r.wrote, after |-> r.store]
    /\ wf_log' = [wf_log EXCEPT ![wf_idx] =
                    [@ EXCEPT !.steps = Append(@, step),
                              !.outcomes = Append(@, exchange),
                              !.nresults = @ + 1]]
    /\ subst' = NoSubst
    /\ UNCHANGED <<results, passed, failed, workflows, wf_idx, summary, calls, wf_no>>
    /\ UNCHANGED <<agentVars, pairVars>>

\* the for loop reads its next step
HasNextStep ==
    /\ rpc = "for_steps"
    /\ Len(step_results) < workflows[wf_idx]

\* the WorkflowResult of lines 102-108
WorkflowResult ==
    [name |-> <<"workflow", wf_idx>>, success |-> workflow_success,
     steps |-> step_results]

\* a bug: the batch is left at the first failed workflow
EndWorkflow_FailFast ==
    /\ \/ rpc = "workflow_done"
       \/ rpc = "for_steps" /\ Len(step_results) = workflows[wf_idx]
    /\ results' = Append(results, WorkflowResult)
    /\ IF workflow_success
       THEN passed' = passed + 1 /\ UNCHANGED failed
       ELSE failed' = failed + 1 /\ UNCHANGED passed
    /\ wf_idx' = IF workflow_success THEN wf_idx + 1 ELSE Len(workflows) + 1
    /\ rpc' = "for_workflows"
    /\ wf_log' = [wf_log EXCEPT ![wf_idx] =
                    [@ EXCEPT !.success = workflow_success, !.done = TRUE]]
    /\ UNCHANGED <<variables, workflows, steps, step_results, workflow_success,
                   summary, calls, http_log, capture_log, last, wf_no, subst>>
    /\ UNCHANGED <<agentVars, pairVars>>

\* run_workflow() returns and run_workflows() counts it (lines 102-108, 47-52)
EndWorkflow ==
    /\ \/ rpc = "workflow_done"
       \/ rpc = "for_steps" /\ Len(step_results) = workflows[wf_idx]
    /\ results' = Append(results, WorkflowResult)
    /\ IF workflow_success
       THEN passed' = passed + 1 /\ UNCHANGED failed
       ELSE failed' = failed + 1 /\ UNCHANGED passed
    /\ wf_idx' = wf_idx + 1
    /\ rpc' = "for_workflows"
    /\ wf_log' = [wf_log EXCEPT ![wf_idx] =
                    [@ EXCEPT !.success = workflow_success, !.done = TRUE]]
    /\ UNCHANGED <<variables, workflows, steps, step_results, workflow_success,
                   summary, calls, http_log, capture_log, last, wf_no, subst>>
    /\ UNCHANGED <<agentVars, pairVars>>

\* the summary of lines 54-60
ReturnSummary ==
    /\ rpc = "for_workflows"
    /\ wf_idx > Len(workflows)
    /\ summary' = [success |-> failed = 0, total |-> Len(workflows),
                   passed |-> passed, failed |-> failed, results |-> results]
    /\ rpc' = "returned"
    /\ UNCHANGED <<variables, results, passed, failed, workflows, wf_idx, steps,
                   step_results, workflow_success, calls, http_log, capture_log,
                   last, wf_no, wf_log, subst>>
    /\ UNCHANGED <<agentVars, pairVars>>

\* what print_summary and the CLI print for a failed workflow: the error of
\* the last recorded step, r.get('steps', [{}])[-1].get('error', ...)
\* (line 251; scripts/run_workflows.py lines 141-142)
ReportedError(r) == r.steps[Len(r.steps)].error

\* RunnerSpec: a runner is given lists of workflows, several times
BatchCall ==
    /\ calls < MaxRunnerCalls
    /\ \E ws \in WorkflowLists :
         /\ wf_no + Len(ws) <= MaxWorkflows
         /\ RunWorkflows(ws)

BatchStep ==
    /\ HasNextStep
    /\ Len(http_log) < MaxRequests
    /\ \E step \in BatchSteps, outcome \in BatchOutcomes : RunStep(step, outcome)

RunnerNext ==
    \/ BatchCall
    \/ StartWorkflow
    \/ BatchStep
    \/ EndWorkflow
    \/ ReturnSummary

\* RawSpec: a runner is given lists of workflows whose steps may be ill typed
RawCall ==
    /\ calls < MaxRunnerCalls
    /\ \E ws \in WorkflowLists :
         /\ wf_no + Len(ws) <= MaxWorkflows
         /\ RunWorkflows(ws)

RawStep ==
    /\ HasNextStep
    /\ Len(http_log) < MaxRequests
    /\ \E step \in RawSteps, outcome \in RawOutcomes : RunStep(step, outcome)

RawNext ==
    \/ RawCall
    \/ StartWorkflow
    \/ RawStep
    \/ EndWorkflow
    \/ ReturnSummary

\* SubstSpec: _substitute_variables() is applied to texts in the stores that
\* the steps of a workflow leave: one that captures t and one that
\* overwrites a built-in, each step of the workflow being one of the two
SubstSteps == <<LoginStep, OverwriteStep>>

SubstCall ==
    /\ calls = 0
    /\ RunWorkflows(<<Len(SubstSteps)>>)

SubstStep ==
    /\ HasNextStep
    /\ \E i \in 1..Len(SubstSteps) : RunStep(SubstSteps[i], OkResponse)

\* a bug: replace_var uses self.variables.setdefault(var_name, ...), which
\* enters an unknown name into the store
Substitute_SetDefault(parts) ==
    /\ rpc = "for_steps"
    /\ ~subst.active
    /\ subst' = [parts |-> parts,
                 out |-> SubstituteVariables(Render(parts), variables),
                 active |-> TRUE]
    /\ variables' = [n \in DOMAIN variables \cup {u} |->
                        IF n \in DOMAIN variables THEN variables[n] ELSE Ref(u)]
    /\ UNCHANGED <<results, passed, failed, workflows, wf_idx, steps,
                   step_results, workflow_success, rpc, summary, calls,
                   http_log, capture_log, last, wf_no, wf_log>>
    /\ UNCHANGED <<agentVars, pairVars>>

\* return re.sub(...)   (lines 214-220): the store is read, never written
Substitute(parts) ==
    /\ rpc = "for_steps"
    /\ ~subst.active
    /\ subst' = [parts |-> parts,
                 out |-> SubstituteVariables(Render(parts), variables),
                 active |-> TRUE]
    /\ UNCHANGED <<variables, results, passed, failed, workflows, wf_idx, steps,
                   step_results, workflow_success, rpc, summary, calls,
                   http_log, capture_log, last, wf_no, wf_log>>
    /\ UNCHANGED <<agentVars, pairVars>>

SubstituteText == \E parts \in Texts : Substitute(parts)

\* the caller has used the returned text
SubstituteDone ==
    /\ subst.active
    /\ subst' = NoSubst
    /\ UNCHANGED <<variables, results, passed, failed, workflows, wf_idx, steps,
                   step_results, workflow_success, rpc, summary, calls,
                   http_log, capture_log, last, wf_no, wf_log>>
    /\ UNCHANGED <<agentVars, pairVars>>

SubstNext ==
    \/ SubstCall
    \/ StartWorkflow
    \/ SubstStep
    \/ SubstituteText
    \/ SubstituteDone

\* ObjSpec: _substitute_variables_in_obj() is applied to nested values in
\* the same stores.  The leaves are strings with a placeholder of a captured
\* name, of an unknown name and of a built-in name, and the scalars a YAML
\* document holds besides strings; a mapping can have a key that reads like
\* a placeholder.
ObjLeaves ==
    { Str(Ref(t)), Str(<<"/">> \o Ref(u)), Str(Ref(available_pet_id)),
      Int_(7), <<"bool", TRUE>>, None }
ObjShallow ==
    ObjLeaves
    \cup { <<"list", <<x>>>> : x \in ObjLeaves }
    \cup { <<"list", <<x, y>>>> : x, y \in ObjLeaves }
    \cup { Map(<< <<Ref(t), x>> >>) : x \in ObjLeaves }
Objs ==
    ObjShallow
    \cup { <<"list", <<x>>>> : x \in ObjShallow }
    \cup { Map(<< <<id, x>>, <<Ref(t), y>> >>) : x \in ObjShallow, y \in ObjLeaves }

\* one call of _substitute_variables_in_obj (lines 222-231): the result is
\* built from new mappings and lists, the store is read through
\* _substitute_variables only
SubstituteObject ==
    /\ rpc = "for_steps"
    /\ ~subst.active
    /\ \E obj \in Objs :
         subst' = [parts |-> obj,
                   out |-> SubstituteVariablesInObj(obj, variables),
                   active |-> TRUE]
    /\ UNCHANGED <<variables, results, passed, failed, workflows, wf_idx, steps,
                   step_results, workflow_success, rpc, summary, calls,
                   http_log, capture_log, last, wf_no, wf_log>>
    /\ UNCHANGED <<agentVars, pairVars>>

ObjNext ==
    \/ SubstCall
    \/ StartWorkflow
    \/ SubstStep
    \/ SubstituteObject
    \/ SubstituteDone

(***************************************************************************)
(* Two WorkflowRunner instances of one process.  A dict is an object: the  *)
(* class attribute BUILTIN_VARIABLES is one, and dict(...) creates a new   *)
(* one for the instance that calls it (the one it created before is then   *)
(* referred to by nothing).  self.variables is a reference to an object.   *)
(***************************************************************************)
\* the instances, and the objects: object r is the dict instance r created
\* last, object 0 is the class attribute BUILTIN_VARIABLES
Runners == {1, 2}
ClassDict == 0

\* a bug: self.variables = self.BUILTIN_VARIABLES, the class's own object
NewStore_Alias(r) == ClassDict

\* dict(self.BUILTIN_VARIABLES): the object of instance r holds a copy
\* (lines 28 and 78)
NewStore(r) == r

\* the store an instance sees: self.variables
StoreOf(r) == dicts[pair[r].variables]

\* self.variables[var_name] = value for the captures of a step, in order
\* (line 189)
RECURSIVE Captured(_, _)
Captured(store, wrote) ==
    IF wrote = <<>> THEN store
    ELSE LET first == wrote[1]
         IN  Captured([n \in DOMAIN store \cup {first[1]} |->
                          IF n = first[1] THEN first[2] ELSE store[n]],
                      Tail(wrote))

\* no object: the attribute is not set yet
NoObject == -1

\* the class is defined, no instance is constructed yet (lines 16-24)
PairInit ==
    /\ dicts = [o \in {ClassDict} |-> BUILTIN_VARIABLES]
    /\ pair = [r \in Runners |->
                 [variables |-> NoObject, pc |-> "unborn", nsteps |-> 0,
                  done |-> 0, wfs |-> 0, own |-> <<>>]]

\* the objects after instance r has created a dict from the class attribute
Allocated(r) ==
    [o \in DOMAIN dicts \cup {NewStore(r)} |->
        IF o = NewStore(r) THEN dicts[ClassDict] ELSE dicts[o]]

\* WorkflowRunner(): instance r is constructed (lines 26-29)
PairConstruct(r) ==
    /\ pair[r].pc = "unborn"
    /\ dicts' = Allocated(r)
    /\ pair' = [pair EXCEPT ![r] =
                  [@ EXCEPT !.variables = NewStore(r), !.pc = "idle",
                            !.own = BUILTIN_VARIABLES]]
    /\ UNCHANGED <<agentVars, runnerVars>>

\* instance r enters run_workflow() for a workflow of n steps (lines 72-83)
PairStartWorkflow(r, n) ==
    /\ pair[r].pc = "idle"
    /\ pair[r].wfs < MaxWorkflows
    /\ dicts' = Allocated(r)
    /\ pair' = [pair EXCEPT ![r] =
                  [variables |-> NewStore(r), pc |-> "for_steps", nsteps |-> n,
                   done |-> 0, wfs |-> @.wfs + 1, own |-> BUILTIN_VARIABLES]]
    /\ UNCHANGED <<agentVars, runnerVars>>

\* instance r executes the next step of its workflow (lines 85-100)
PairRunStep(r, step, outcome) ==
    LET res == ExecuteStep(step, StoreOf(r), outcome)
    IN
    /\ pair[r].pc = "for_steps"
    /\ pair[r].done < pair[r].nsteps
    /\ dicts' = [dicts EXCEPT ![pair[r].variables] = res.store]
    /\ pair' = [pair EXCEPT ![r] =
                  [@ EXCEPT !.done = @ + 1,
                            !.pc = IF StopsWorkflow(res.result)
                                   THEN "workflow_done" ELSE "for_steps",
                            !.own = Captured(@, res.wrote)]]
    /\ UNCHANGED <<agentVars, runnerVars>>

\* instance r returns from run_workflow() (lines 102-108)
PairEndWorkflow(r) ==
    /\ \/ pair[r].pc = "workflow_done"
       \/ pair[r].pc = "for_steps" /\ pair[r].done = pair[r].nsteps
    /\ pair' = [pair EXCEPT ![r].pc = "idle"]
    /\ UNCHANGED dicts
    /\ UNCHANGED <<agentVars, runnerVars>>

\* The step definitions of PairSpec: a capture of a new name and a capture
\* into a built-in name.
PairSteps == {LoginStep, OverwriteStep}
\* What the service answers in PairSpec.
PairOutcomes == {OkResponse, OtherResponse, NotFound}

\* PairSpec: the two instances run workflows, interleaved step by step
PairStart == \E r \in Runners, n \in 1..MaxSteps : PairStartWorkflow(r, n)

PairStep ==
    \E r \in Runners, step \in PairSteps, outcome \in PairOutcomes :
      PairRunStep(r, step, outcome)

PairEnd == \E r \in Runners : PairEndWorkflow(r)

PairNew == \E r \in Runners : PairConstruct(r)

PairNext ==
    \/ PairNew
    \/ PairStart
    \/ PairStep
    \/ PairEnd

\* StatusSpec: a runner is given one workflow whose steps expect a status
StatusCall ==
    /\ calls = 0
    /\ \E ws \in ChainLists : RunWorkflows(ws)

StatusStep ==
    /\ HasNextStep
    /\ \E step \in StatusSteps, outcome \in StatusOutcomes : RunStep(step, outcome)

StatusNext ==
    \/ StatusCall
    \/ StartWorkflow
    \/ StatusStep
    \/ EndWorkflow
    \/ ReturnSummary

\* StepSpec: a runner is given one workflow, once
ChainCall ==
    /\ calls = 0
    /\ \E ws \in ChainLists : RunWorkflows(ws)

ChainStep ==
    /\ HasNextStep
    /\ \E step \in StepDefs, outcome \in HTTPOutcomes : RunStep(step, outcome)

StepNext ==
    \/ ChainCall
    \/ StartWorkflow
    \/ ChainStep
    \/ EndWorkflow
    \/ ReturnSummary

(***************************************************************************)
(* Claims on WorkflowRunner                                                *)
(***************************************************************************)
Failures(srs) == {i \in 1..Len(srs) : ~srs[i].success}

\* C1: a workflow whose first failing StepResult is that of step k has
\* exactly k StepResults and success=false, and no HTTP request is issued
\* for a step after k: this holds of every WorkflowResult and of the
\* workflow being run, whose loop has then been left.
C1_StopsAtFirstFailure ==
    /\ \A j \in 1..Len(results) :
         Failures(results[j].steps) # {}
         => /\ Len(results[j].steps) = Min(Failures(results[j].steps))
            /\ Len(results[j].steps) <= workflows[j]
            /\ results[j].success = FALSE
    /\ (rpc \in {"for_steps", "workflow_done"} /\ Failures(step_results) # {})
       => /\ Len(step_results) = Min(Failures(step_results))
          /\ workflow_success = FALSE
          /\ rpc = "workflow_done"
          /\ \A q \in 1..Len(http_log) :
               http_log[q].wf = wf_no
               => http_log[q].step_num <= Min(Failures(step_results))

\* a workflow of two steps whose first step got a 404 has one StepResult
C1_Witness ==
    \E j \in 1..Len(results) :
      /\ workflows[j] = 2
      /\ Len(results[j].steps) = 1
      /\ results[j].steps[1].actual_status = Int_(404)
      /\ ~results[j].success
      /\ rpc = "returned"

\* the seven built-in variables and their values
C8_Builtins ==
    [n \in {customer_username, store_owner_username, admin_username,
            test_password, available_pet_id, pending_pet_id, sold_pet_id} |->
        CASE n = customer_username -> <<"c","u","s","t","o","m","e","r","1">>
          [] n = store_owner_username -> <<"s","t","o","r","e","o","w","n","e","r">>
          [] n = admin_username -> <<"a","d","m","i","n">>
          [] n = test_password -> <<"p","a","s","s","w","o","r","d">>
          [] n = available_pet_id -> <<"1">>
          [] n = pending_pet_id -> <<"5">>
          [] n = sold_pet_id -> <<"6">>]

\* the captures of workflow number w, applied in order to the built-ins
RECURSIVE C8_OwnStore(_, _)
C8_OwnStore(w, n) ==
    IF n = 0 THEN C8_Builtins
    ELSE LET before == C8_OwnStore(w, n - 1)
             c == capture_log[n]
         IN  IF c.wf # w THEN before
             ELSE [x \in DOMAIN before \cup {c.name} |->
                     IF x = c.name THEN c.value ELSE before[x]]

\* C8: when run_workflow reaches its first step the Variable Store is
\* exactly the seven built-ins; while a workflow runs the store is the
\* built-ins overwritten by the captures of this workflow alone; the request
\* of a workflow's first step is the one built from the built-ins alone.
C8_FreshStorePerWorkflow ==
    /\ (rpc = "for_steps" /\ step_results = <<>>) => variables = C8_Builtins
    /\ rpc \in {"for_steps", "workflow_done"}
       => variables = C8_OwnStore(wf_no, Len(capture_log))
    /\ \A q \in 1..Len(http_log) :
         http_log[q].step_num = 1
         => \E step \in {b \in BatchSteps : ActionParses(b) /\ ~StepRaises(b)} :
              http_log[q].request = BuildRequest(step, C8_Builtins)

\* the first step of a workflow uses {{t}}, which an earlier workflow of the
\* runner captured: the placeholder is sent unresolved
C8_Witness ==
    \E q \in 1..Len(http_log) :
      /\ http_log[q].step_num = 1
      /\ http_log[q].request = BuildRequest(UseStep, C8_Builtins)
      /\ \E c \in 1..Len(capture_log) :
           capture_log[c].wf < http_log[q].wf /\ capture_log[c].name = t

\* the results with the given success
C13_Count(b) == Cardinality({j \in 1..Len(results) : results[j].success = b})

\* C13: when an invocation of run_workflows has ended, every input workflow
\* has been run once, in input order, whatever failed before it, and the
\* summary has total = number of input workflows, one WorkflowResult per
\* input workflow in input order, passed and failed the numbers of results
\* with success true and false, passed + failed = total, and success true
\* iff failed = 0.
C13_SummaryCounts ==
    rpc \in {"returned", "raised"}
    => /\ Len(results) = Len(workflows)
       /\ \A j \in 1..Len(results) :
            /\ results[j].name = <<"workflow", j>>
            /\ Len(results[j].steps) <= workflows[j]
       /\ summary.total = Len(workflows)
       /\ summary.results = results
       /\ summary.passed = C13_Count(TRUE)
       /\ summary.failed = C13_Count(FALSE)
       /\ summary.passed + summary.failed = summary.total
       /\ summary.success = (summary.failed = 0)

\* two finished runs of run_workflow() are runs of the same workflow against
\* the same answers: as many steps declared, and the steps read and the
\* answers given agree as far as both runs went
C14_SameRun(a, b) ==
    /\ wf_log[a].done /\ wf_log[b].done
    /\ wf_log[a].nsteps = wf_log[b].nsteps
    /\ \A i \in 1..Min({wf_log[a].nresults, wf_log[b].nresults}) :
         /\ wf_log[a].steps[i] = wf_log[b].steps[i]
         /\ wf_log[a].outcomes[i] = wf_log[b].outcomes[i]

\* C14: run_workflow of the same workflow, twice on the same runner against
\* the same answers of the service, ends with the same success (and after
\* as many steps), whatever was captured in the first run or between.
C14_Idempotent ==
    \A a, b \in 1..Len(wf_log) :
      (a < b /\ C14_SameRun(a, b))
      => /\ wf_log[a].success = wf_log[b].success
         /\ wf_log[a].nresults = wf_log[b].nresults

\* the workflow run twice overwrites a built-in variable it compares with;
\* both runs succeed
C14_Witness ==
    \E a, b \in 1..Len(wf_log) :
      /\ a < b /\ C14_SameRun(a, b)
      /\ wf_log[a].steps = <<OverwriteStep>>
      /\ wf_log[a].outcomes = <<OkResponse>>
      /\ wf_log[a].success /\ wf_log[b].success

\* the store at the start of step j of the workflow being run: the
\* built-ins overwritten by the first n captures that steps before j made
RECURSIVE C12_StoreBefore(_, _)
C12_StoreBefore(j, n) ==
    IF n = 0 THEN C8_Builtins
    ELSE LET before == C12_StoreBefore(j, n - 1)
             c == capture_log[n]
         IN  IF c.wf # wf_no \/ c.step_num >= j THEN before
             ELSE [x \in DOMAIN before \cup {c.name} |->
                     IF x = c.name THEN c.value ELSE before[x]]

\* C12: within a workflow the request of step j is the one built from the
\* built-ins and the captures of the steps before j, the latest capture of
\* a name winning, and from no capture of step j itself: where an earlier
\* step captured t, a later step's `{{t}}` in path, query, header and body
\* is that value.
C12_CapturePropagates ==
    rpc \in {"for_steps", "workflow_done"}
    => \A q \in 1..Len(http_log) :
         http_log[q].wf = wf_no
         => LET j == http_log[q].step_num
                store == C12_StoreBefore(j, Len(capture_log))
                request == http_log[q].request
            IN  /\ request = BuildRequest(steps[j], store)
                /\ (steps[j] = RefreshStep /\ t \in DOMAIN store)
                   => /\ request.url = base_url \o <<"/">> \o store[t]
                                       \o <<"?", "q", "=">> \o store[t]
                      /\ request.headers[1] = <<"Authorization", <<"B", " ">> \o store[t]>>
                      /\ request.data = <<"json.dumps", Map(<< <<"old", Str(store[t])>> >>)>>

\* step 2 follows a login that captured "ab"; its request carries "ab" in
\* path, query, header and body although its own expectation captured "cd"
C12_Witness ==
    /\ Len(step_results) = 2
    /\ steps[1] = LoginStep
    /\ steps[2] = RefreshStep
    /\ http_log[Len(http_log)].request.url
         = base_url \o <<"/", "a", "b", "?", "q", "=", "a", "b">>
    /\ variables[t] = <<"c", "d">>

\* ---- the step executed last ----
C_Ran == last # NoStep
C_Expect == last.step.expect
C_Entries == C_Expect.body_contains[2]
\* the response arrived and its status is the expected one, if one is expected
C_StatusPassed ==
    /\ ActionParses(last.step)
    /\ last.outcome.kind = "response"
    /\ (C_Expect.status = None \/ C_Expect.status = Int_(last.outcome.status))
C_FieldPresent(i) ==
    last.outcome.is_json /\ HasKey(last.outcome.json, C_Entries[i][1])
\* entry i is `{{save:NAME}}`; its NAME
C_IsCapture(i) ==
    LET e == C_Entries[i][2]
    IN  /\ e[1] = "str"
        /\ Len(e[2]) > 9
        /\ SubSeq(e[2], 1, 7) = <<"{", "{", "s", "a", "v", "e", ":">>
        /\ SubSeq(e[2], Len(e[2]) - 1, Len(e[2])) = <<"}", "}">>
C_CaptureName(i) == SubSeq(C_Entries[i][2][2], 8, Len(C_Entries[i][2][2]) - 2)
C_Captured(i) == PyStr(Get(last.outcome.json, C_Entries[i][1]))

\* C9 as stated: whenever the status check passes and the field of a
\* `{{save:x}}` entry is in the JSON response, the store maps x to the
\* stringified value of that field after the step.
C9_CaptureAlwaysWrites ==
    C_Ran =>
      \A i \in 1..Len(C_Entries) :
        (C_IsCapture(i) /\ C_StatusPassed /\ C_FieldPresent(i))
        => /\ C_CaptureName(i) \in DOMAIN last.after
           /\ last.after[C_CaptureName(i)] = C_Captured(i)

\* the entry at which the step failed, when a comparison failed
C_FailedAt(i) ==
    StartsWith(last.result.error, <<"Expected ">> \o C_Entries[i][1] \o <<"=">>)
\* the loop over bodyContains got to entry i
C_Reached(i) ==
    last.result.success \/ \E j \in i..Len(C_Entries) : C_FailedAt(j)
\* the entries that write x
C_Writers(x) ==
    {j \in 1..Len(C_Entries) :
        C_IsCapture(j) /\ C_CaptureName(j) = x /\ C_FieldPresent(j) /\ C_Reached(j)}

\* C9, amended: whenever the status check passes, no comparison of an
\* earlier entry of the same bodyContains fails, and the field of the
\* `{{save:x}}` entry is in the JSON response, the entry writes the
\* stringified value of the field to x; after the step the store maps x to
\* the value written by the last such entry for x.
C9_CaptureWrites ==
    C_Ran =>
      \A i \in 1..Len(C_Entries) :
        (C_IsCapture(i) /\ C_StatusPassed /\ C_FieldPresent(i) /\ C_Reached(i))
        => LET x == C_CaptureName(i)
           IN  /\ \E w \in 1..Len(last.wrote) : last.wrote[w] = <<x, C_Captured(i)>>
               /\ x \in DOMAIN last.after
               /\ last.after[x] = C_Captured(Max(C_Writers(x)))
               /\ variables = last.after

\* the integer field id is captured after the token into the same variable
\* of a store that did not hold it: the store maps t to "1"
C9_Witness ==
    /\ C_Ran
    /\ last.result.success
    /\ Len(last.wrote) = 2
    /\ t \notin DOMAIN last.before
    /\ variables[t] = <<"1">>

\* the store as the loop over bodyContains finds it at entry i: the store at
\* the start of the step, overwritten by the captures of the entries before i
RECURSIVE C_StoreAt(_)
C_StoreAt(i) ==
    IF i <= 1 THEN last.before
    ELSE LET store == C_StoreAt(i - 1)
         IN  IF C_IsCapture(i - 1) /\ C_FieldPresent(i - 1)
             THEN [n \in DOMAIN store \cup {C_CaptureName(i - 1)} |->
                     IF n = C_CaptureName(i - 1) THEN C_Captured(i - 1) ELSE store[n]]
             ELSE store

\* entry i is a comparison and the response matches it
C_Matches(i) ==
    /\ C_FieldPresent(i)
    /\ C_Captured(i) = SubstituteVariables(PyStr(C_Entries[i][2]), C_StoreAt(i))

\* C11: a StepResult with success=true implies that for every non-capture
\* pair of expect.bodyContains the response carried the field and its
\* stringified value equals the substituted expected value (so a non-JSON
\* body or an empty JSON object fails a step that compares a field).
C11_SuccessMeansMatched ==
    (C_Ran /\ last.result.success)
    => \A i \in 1..Len(C_Entries) : ~C_IsCapture(i) => C_Matches(i)

\* C10: when expect.status is present and differs from the actual status
\* the step fails with "Expected status <expected>, got <actual>" (the
\* status is looked at before any bodyContains entry), nothing is captured
\* and the Variable Store is the one the step started with.
C10_StatusCheckedFirst ==
    (/\ C_Ran
     /\ ActionParses(last.step)
     /\ last.outcome.kind = "response"
     /\ C_Expect.status # None
     /\ C_Expect.status # Int_(last.outcome.status))
    => /\ last.result.success = FALSE
       /\ last.result.error = <<"Expected status ">> \o PyStr(C_Expect.status)
                              \o <<", got ">> \o Digits(last.outcome.status)
       /\ last.wrote = <<>>
       /\ last.after = last.before
       /\ variables = last.before

\* a login whose response holds the token but has status 404: the error is
\* "Expected status 200, got 404" and t is not captured
C10_Witness ==
    /\ C_Ran
    /\ last.step = LoginStep
    /\ last.outcome = NotFound
    /\ last.result.error = <<"Expected status ", "2", "0", "0", ", got ", "4", "0", "4">>
    /\ t \notin DOMAIN variables

\* ---- the workflows of the run_workflows() call in progress ----
\* the number, among all run_workflow() calls, of workflow j of this call
C_WfNo(j) == wf_no - Len(wf_log) + j
\* a request was issued for step i of workflow j
C_Requested(j, i) ==
    \E q \in 1..Len(http_log) :
      http_log[q].wf = C_WfNo(j) /\ http_log[q].step_num = i
\* when run_workflows() has returned, every workflow after j has its
\* WorkflowResult and, if it has steps, has executed its first one
C_LaterWorkflowsRun(j) ==
    rpc = "returned"
    => /\ Len(results) = Len(workflows)
       /\ \A k \in (j + 1)..Len(workflows) :
            workflows[k] >= 1 => Len(results[k].steps) >= 1

\* the action has no space to split at
C18_Malformed(step) == \A i \in 1..Len(step.action) : step.action[i] # " "

\* C18: a step whose action does not split into method and path returns
\* success=false with "Invalid action format: <action>", no request is
\* issued for it and the Variable Store stays as it was; it is the last
\* step of its workflow, which fails, and the workflows after it in the
\* run_workflows() call are still run.
C18_MalformedStepFails ==
    /\ (C_Ran /\ C18_Malformed(last.step))
       => /\ last.result.success = FALSE
          /\ last.result.error = <<"Invalid action format: ">> \o last.step.action
          /\ last.wrote = <<>>
          /\ last.after = last.before
    /\ \A j \in 1..Len(wf_log) :
         \A i \in 1..wf_log[j].nresults :
           C18_Malformed(wf_log[j].steps[i])
           => /\ ~C_Requested(j, i)
              /\ i = wf_log[j].nresults
              /\ wf_log[j].done => ~wf_log[j].success
              /\ j = Len(wf_log) /\ ~wf_log[j].done => rpc = "workflow_done"
              /\ C_LaterWorkflowsRun(j)

\* the first workflow stopped at its malformed first step, the second one
\* has run its step
C18_Witness ==
    /\ rpc = "returned"
    /\ Len(wf_log) = 2
    /\ wf_log[1].steps = <<MalformedStep>>
    /\ workflows[1] = 2
    /\ ~results[1].success
    /\ Len(results[2].steps) = 1
    /\ C_Requested(2, 1)

\* C19: a transport exception in the HTTP round trip gives a StepResult
\* with success=false and the error "Request failed: <message>", the store
\* stays as it was, the step is the last of its workflow, which fails, the
\* runner goes on, and the later workflows of the call are still run.
C19_TransportFailureContained ==
    /\ (C_Ran /\ last.outcome.kind = "error")
       => /\ last.result.success = FALSE
          /\ Len(last.result.error) = 2
          /\ last.result.error[1] = "Request failed: "
          /\ last.after = last.before
    /\ \A j \in 1..Len(wf_log) :
         \A i \in 1..wf_log[j].nresults :
           wf_log[j].outcomes[i].kind = "error"
           => /\ C_Requested(j, i)
              /\ i = wf_log[j].nresults
              /\ wf_log[j].done => ~wf_log[j].success
              /\ j = Len(wf_log) /\ ~wf_log[j].done => rpc = "workflow_done"
              /\ C_LaterWorkflowsRun(j)

\* the connection failed in the first step of the first workflow; the
\* second workflow has run and passed
C19_Witness ==
    /\ rpc = "returned"
    /\ Len(wf_log) = 2
    /\ wf_log[1].outcomes = <<TransportError>>
    /\ workflows[1] = 2
    /\ ~results[1].success
    /\ results[2].success /\ Len(results[2].steps) = 1

\* C20: no step lets an exception leave run_workflow or run_workflows: a
\* step definition with absent, null or ill-typed headers, body, query or
\* expect gives a StepResult with success=false.
C20_NoExceptionEscapes == rpc # "raised"

\* C26: for a step that expects status S and no field, the step succeeds
\* iff the status of the response is S, whether S and the status are 2xx,
\* 4xx or 5xx; the StepResult is made from the status and the body of the
\* response in the same way for an error status as for a 2xx one: on
\* success the status and the parsed body, on a mismatch the message
\* "Expected status S, got <status>", the status and the raw body.
C26_ErrorStatusIsOutcome ==
    (/\ C_Ran
     /\ last.outcome.kind = "response"
     /\ C_Expect.status # None /\ C_Expect.status[2] # 0
     /\ C_Entries = <<>>)
    => LET S == C_Expect.status[2]
           actual == last.outcome.status
       IN  /\ last.result.success <=> (actual = S)
           /\ last.result =
                IF actual = S
                THEN StepResult(TRUE, <<>>, Int_(actual), None, last.outcome.json)
                ELSE StepResult(FALSE,
                                <<"Expected status ">> \o Digits(S)
                                  \o <<", got ">> \o Digits(actual),
                                None, Int_(actual), ResponseBody(last.outcome))
           /\ last.after = last.before

\* a step that expects 404 got a 404 with a JSON body and passed, and the
\* next step, which expects 500, got a 200 and failed
C26_Witness ==
    /\ Len(step_results) = 2
    /\ steps[1].expect.status = Int_(404)
    /\ step_results[1] = StepResult(TRUE, <<>>, Int_(404), None,
                                    Map(<< <<id, Int_(1)>> >>))
    /\ steps[2].expect.status = Int_(500)
    /\ last.outcome.status = 200
    /\ ~last.result.success

\* C27: with two instances whose workflows are interleaved step by step,
\* at every point the Variable Store of each instance is the built-ins
\* overwritten by the captures of its own current workflow and nothing
\* else, the two instances and the class do not share a dict object, and
\* the class attribute BUILTIN_VARIABLES holds the seven built-ins with
\* their values, whatever was captured (a capture named like a built-in
\* included).
C27_InstancesIsolated ==
    /\ dicts[ClassDict] = C8_Builtins
    /\ \A r \in Runners :
         pair[r].pc # "unborn"
         => /\ StoreOf(r) = pair[r].own
            /\ pair[r].variables # ClassDict
            /\ \A q \in Runners \ {r} : pair[r].variables # pair[q].variables
            /\ \A n \in DOMAIN C8_Builtins : n \in DOMAIN StoreOf(r)

\* both instances are inside a workflow; one has captured "ab" into the
\* built-in name available_pet_id, the other "cd" into t
C27_Witness ==
    /\ pair[1].pc = "for_steps" /\ pair[2].pc = "for_steps"
    /\ StoreOf(1)[available_pet_id] = <<"a", "b">>
    /\ t \notin DOMAIN StoreOf(1)
    /\ t \in DOMAIN StoreOf(2)
    /\ StoreOf(2)[t] = <<"c", "d">>
    /\ StoreOf(2)[available_pet_id] = <<"1">>

\* C28: every WorkflowResult has success=true iff each of its StepResults
\* has; a WorkflowResult with success=false has at least one StepResult,
\* its last StepResult is the only failed one and carries an error message,
\* and the error reported for the workflow (that of the last recorded
\* step) is the error of the first failing step.
C28_ResultShape ==
    \A j \in 1..Len(results) :
      LET r == results[j]
          n == Len(r.steps)
      IN  /\ r.success <=> (\A i \in 1..n : r.steps[i].success)
          /\ ~r.success
             => /\ n >= 1
                /\ Failures(r.steps) = {n}
                /\ r.steps[n].error # <<>>
                /\ ReportedError(r) = r.steps[Min(Failures(r.steps))].error

\* a failed workflow with two StepResults: the login passed, the second
\* step got a 404; and a passed workflow without steps
C28_Witness ==
    /\ rpc = "returned"
    /\ Len(results) = 2
    /\ ~results[1].success
    /\ Len(results[1].steps) = 2
    /\ results[1].steps[1].success
    /\ ReportedError(results[1])
         = <<"Expected status ", "2", "0", "0", ", got ", "4", "0", "4">>
    /\ results[2].success /\ results[2].steps = <<>>

\* ---- the last call of _substitute_variables ----
C_Text == Render(subst.parts)
\* text holds `{{`, then one or more characters other than `}`, then `}}`
C15_HasOccurrence(text) ==
    \E i \in 1..Len(text), k \in 1..Len(text) :
      /\ k >= i + 2 /\ k + 2 <= Len(text)
      /\ text[i] = "{" /\ text[i + 1] = "{"
      /\ \A m \in (i + 2)..k : text[m] # "}"
      /\ text[k + 1] = "}" /\ text[k + 2] = "}"

\* C15: a call of _substitute_variables leaves the Variable Store as it is,
\* what it returns is the substitution of its text in that store, and a text
\* with no `{{...}}` occurrence is returned unchanged.
C15_SubstitutionPure ==
    [][(subst'.active /\ ~subst.active)
       => /\ variables' = variables
          /\ subst'.out = SubstituteVariables(Render(subst'.parts), variables)
          /\ ~C15_HasOccurrence(Render(subst'.parts))
             => subst'.out = Render(subst'.parts)]_vars

\* a text of braces and a literal without `{{...}}` occurrence is returned
\* as it is by a store that holds t
C15_Witness ==
    /\ subst.active
    /\ subst.parts = << <<"}", "}">>, <<"/">>, <<"{", "{">> >>
    /\ subst.out = <<"}", "}", "/", "{", "{">>
    /\ t \in DOMAIN variables

\* the parts that are placeholders, and the name of one
C16_Placeholders == {Ref(t), Ref(u), Ref(available_pet_id)}
C16_Name(part) == SubSeq(part, 3, Len(part) - 2)
\* what a part of a text becomes: a placeholder of a key of the store the
\* value of the key, every other part itself
C16_Image(part) ==
    IF part \in C16_Placeholders /\ C16_Name(part) \in DOMAIN variables
    THEN variables[C16_Name(part)] ELSE part
RECURSIVE C16_Images(_)
C16_Images(parts) ==
    IF parts = <<>> THEN <<>> ELSE C16_Image(parts[1]) \o C16_Images(Tail(parts))

C17_SaveNotSubstituted ==
    /\ \A n \in DOMAIN variables : ~StartsWith(n, <<"s", "a", "v", "e", ":">>)
    /\ (/\ subst.active
        /\ \E k \in 1..Len(subst.parts) : subst.parts[k] = Save(t)
        /\ \A k \in 1..Len(subst.parts) :
             subst.parts[k] \in C16_Placeholders \cup {<<"/">>, Save(t)})
       => subst.out = C16_Images(subst.parts)

\* t is captured; `{{save:t}}{{t}}` becomes `{{save:t}}ab`
C17_Witness ==
    /\ subst.active
    /\ subst.parts = <<Save(t), Ref(t)>>
    /\ subst.out = Save(t) \o <<"a", "b">>


\* ---- _substitute_variables_in_obj ----
\* `out` has the shape of `obj`: the same kind of value at every position,
\* mappings with the same keys in the same order, lists of the same length,
\* every scalar that is not a string unchanged, and every string leaf the
\* substitution of the original leaf in `store`
RECURSIVE C32_Preserved(_, _, _)
C32_Preserved(obj, out, store) ==
    /\ out[1] = obj[1]
    /\ CASE obj[1] = "str" -> out[2] = SubstituteVariables(obj[2], store)
         [] obj[1] = "map" ->
              /\ Len(out[2]) = Len(obj[2])
              /\ \A i \in 1..Len(obj[2]) :
                   /\ out[2][i][1] = obj[2][i][1]
                   /\ C32_Preserved(obj[2][i][2], out[2][i][2], store)
         [] obj[1] = "list" ->
              /\ Len(out[2]) = Len(obj[2])
              /\ \A i \in 1..Len(obj[2]) :
                   C32_Preserved(obj[2][i], out[2][i], store)
         [] OTHER -> out = obj

\* C32: a call of _substitute_variables_in_obj returns a value of the
\* shape of its argument, with mapping keys and non-string scalars unchanged
\* and every string leaf replaced by its substitution, and it leaves the
\* Variable Store and the argument as they were.
C32_StructurePreserved ==
    [][(subst'.active /\ ~subst.active)
       => /\ variables' = variables
          /\ subst'.parts \in Objs
          /\ C32_Preserved(subst'.parts, subst'.out, variables)]_vars

\* a mapping with a list of a captured and an unknown placeholder under one
\* key and a number under a key that reads like a placeholder
C32_Witness ==
    /\ subst.active
    /\ t \in DOMAIN variables
    /\ subst.parts = Map(<< <<id, <<"list", <<Str(Ref(t)), Str(<<"/">> \o Ref(u))>>>>>>,
                            <<Ref(t), Int_(7)>> >>)
    /\ subst.out = Map(<< <<id, <<"list", <<Str(<<"a", "b">>), Str(<<"/">> \o Ref(u))>>>>>>,
                          <<Ref(t), Int_(7)>> >>)

\* ---- capture directives ----
\* entry i of the last step's bodyContains is `{{save:NAME}}` and nothing
\* else, NAME being a non-empty text without a closing brace
C33_Exact(i) ==
    /\ C_IsCapture(i)
    /\ \A k \in 1..Len(C_CaptureName(i)) : C_CaptureName(i)[k] # "}"

\* C33: an entry of bodyContains acts as a capture directive only when
\* its value is exactly `{{save:NAME}}`, and then the variable written is
\* NAME; every other value is compared with the response field: it writes no
\* variable, and the step fails when the stringified field differs from it.
C33_OnlyExactDirectivesCapture ==
    C_Ran =>
      /\ \A k \in 1..Len(last.wrote) :
           \E i \in 1..Len(C_Entries) :
             C33_Exact(i) /\ C_CaptureName(i) = last.wrote[k][1]
      /\ \A i \in 1..Len(C_Entries) :
           (/\ ~C33_Exact(i)
            /\ C_StatusPassed
            /\ C_FieldPresent(i)
            /\ C_Captured(i) # SubstituteVariables(PyStr(C_Entries[i][2]), last.before))
           => ~last.result.success

\* ---- a directive whose field the response does not have ----
\* entry i of the last step is a directive, the response is a JSON object
\* and has no field of the entry's name
C34_FieldAbsent(i) ==
    /\ C33_Exact(i)
    /\ last.outcome.kind = "response"
    /\ last.outcome.is_json
    /\ ~HasKey(last.outcome.json, C_Entries[i][1])

\* step j of the workflow being run has a `{{t}}` in path, query and
\* header, and no step before it captured t
C34_Unresolved(j) ==
    /\ steps[j] \in {UseStep, RefreshStep}
    /\ \A n \in 1..Len(capture_log) :
         ~(/\ capture_log[n].wf = wf_no
           /\ capture_log[n].step_num < j
           /\ capture_log[n].name = t)

C35_FailedStepLeavesStore ==
    (C_Ran /\ ~last.result.success) => last.after = last.before

\* the store after the directives among the first n entries of the last
\* step have written the fields the response has
RECURSIVE C35_After(_)
C35_After(n) ==
    IF n = 0 THEN last.before
    ELSE LET earlier == C35_After(n - 1)
         IN  IF C33_Exact(n) /\ C_FieldPresent(n)
             THEN [x \in DOMAIN earlier \cup {C_CaptureName(n)} |->
                     IF x = C_CaptureName(n) THEN C_Captured(n) ELSE earlier[x]]
             ELSE earlier

\* C35, amended: a step that fails for a malformed action, a transport
\* error or a status mismatch leaves the Variable Store exactly as it was;
\* a step that fails at the comparison of entry i of bodyContains leaves it
\* as it was except for the captures of the directives before entry i, which
\* stay written.
C35_FailureKeepsEarlierCaptures ==
    (C_Ran /\ ~last.result.success)
    => IF C_StatusPassed /\ \E i \in 1..Len(C_Entries) : C_FailedAt(i)
       THEN \A i \in 1..Len(C_Entries) :
              C_FailedAt(i) => last.after = C35_After(i - 1)
       ELSE last.after = last.before

\* a step captured t from the token and failed at the comparison of the
\* next entry: t stays in the store
C35_Witness ==
    /\ C_Ran
    /\ ~last.result.success
    /\ C_Entries = << <<token, Str(Save(t))>>, <<id, Int_(1)>> >>
    /\ C_FailedAt(2)
    /\ t \notin DOMAIN last.before
    /\ last.after[t] = <<"c", "d">>
    /\ variables = last.after

(***************************************************************************)
(* Specifications: one driver runs, the other one stays as constructed.    *)
(***************************************************************************)
\* an agent and a runner, both as constructed
Init == AgentInit /\ RunnerInit /\ PairInit /\ outputs = NoOutputs

\* an ingestion agent or a requirement agent as constructed
\* (spec_ingestion_agent.py lines 171-179, business_requirement_agent.py
\* lines 525-535)
OutputInit ==
    /\ AgentInit /\ RunnerInit /\ PairInit
    /\ outputs \in {[NoOutputs EXCEPT !.cls = c] :
                      c \in {"SpecificationIngestionAgent", "BusinessRequirementAgent"}}

\* the runner as constructed, beside an agent that is never run
RunnerOnlyInit == max_iterations = 0 /\ Init

AgentSpec == Init /\ [][AgentNext]_vars

\* run() is sequential code: the statement it is at is executed, and the
\* LLM call and the executor call it waits for return or raise
AgentFairness ==
    /\ WF_vars(LLMReplyFrom(TRUE) \/ LLMRaises)
    /\ WF_vars(ToolCall)
    /\ WF_vars(EndBatch)
    /\ WF_vars(Return)

\* AgentRunSpec: one run() on a fresh instance, its steps being taken
FirstRun == runs = 0 /\ Run

AgentRunNext ==
    \/ FirstRun
    \/ LLMReplyFrom(TRUE)
    \/ LLMRaises
    \/ ToolCall
    \/ EndBatch
    \/ Return

AgentRunSpec == Init /\ [][AgentRunNext]_vars /\ AgentFairness

RunnerSpec == RunnerOnlyInit /\ [][RunnerNext]_vars

StepSpec == RunnerOnlyInit /\ [][StepNext]_vars

RawSpec == RunnerOnlyInit /\ [][RawNext]_vars

SubstSpec == RunnerOnlyInit /\ [][SubstNext]_vars

ObjSpec == RunnerOnlyInit /\ [][ObjNext]_vars

OutputSpec == OutputInit /\ [][OutputNext]_vars

StatusSpec == RunnerOnlyInit /\ [][StatusNext]_vars

PairSpec == RunnerOnlyInit /\ [][PairNext]_vars

====
